---- MODULE Spec2Model ----
(***************************************************************************)
(* Agent execution and event distribution of OpenManus:                    *)
(*   - EventQueue (app/utils/agent_event.py): the per-agent bus,           *)
(*   - BaseAgent / ReActAgent (app/agent/base.py, react.py): the run loop, *)
(*   - TaskManager (app/apis/services/task_manager.py): registry, progress *)
(*     recorder and the event stream generator.                            *)
(* Coroutines are modelled at their suspension points: everything between  *)
(* two awaits of one coroutine is one atomic step of the event loop.       *)
(***************************************************************************)
EXTENDS Integers, Sequences, FiniteSets, TLC

\* ------------------------------------------------------------------ bounds
MaxEvents == 3        \* events put on one bus in one behaviour
MaxHandlers == 2      \* subscriptions registered on one bus
MaxSteps == 2         \* largest max_steps an agent is built with
MaxMessages == 3      \* messages added to a memory on its own

\* ------------------------------------------------------------- event names
\* A dotted event name is the sequence of its segments.
LIFECYCLE_START == <<"agent", "lifecycle", "start">>
LIFECYCLE_COMPLETE == <<"agent", "lifecycle", "complete">>
STEP_START == <<"agent", "lifecycle", "step", "start">>

BusNames == {LIFECYCLE_START, STEP_START}

\* Subscription patterns: a literal prefix, optionally followed by ".*".
PatAll == [lit |-> <<"agent">>, tail |-> TRUE]
PatStep == [lit |-> <<"agent", "lifecycle", "step">>, tail |-> TRUE]
PatStart == [lit |-> LIFECYCLE_START, tail |-> FALSE]

IsPrefix(s, t) == Len(s) <= Len(t) /\ SubSeq(t, 1, Len(s)) = s

\* re.Pattern.match anchors the pattern at the start of the name only.
PatternMatch(p, name) == IsPrefix(p.lit, name)

\* ---------------------------------------------------------------- variables
VARIABLES
    queue,      \* EventQueue.queue: the deque of EventItems
    handlers,   \* EventQueue._handlers: the subscriptions, in registration order
    evflag,     \* EventQueue._event: the asyncio.Event's flag
    btask,      \* EventQueue._task: "none", "running", "cancelling", "done"
    bpc,        \* where process_events is suspended: "wait" or "handler"
    cur,        \* the event popped by process_events and being dispatched
    hidx,       \* index in handlers of the handler being awaited
    nput,       \* number of put calls so far (the clock stamping events)
    busyPuts,   \* history variable: events put while a handler of a disjoint pattern was awaited
    ncalls,     \* history variable: number of handler invocations so far
    delivered,  \* history variable: the (subscription, event) pairs invoked
    lastOk,     \* whether the handler call being awaited bound its arguments
    lastOutcome, \* history variable: how the latest handler call ended
    tasks,      \* TaskManager.tasks: task id -> generation of its agent, 0 = absent
    histories,  \* TaskManager.histories: task id -> list of progress entries
    ncreate,    \* number of create_task calls so far
    nrec,       \* number of update_task_progress calls so far
    sappend,    \* clock: polling ticks since the last append to a history, capped
    spc,        \* event_generator of a subscriber: where it is suspended
    stask,      \* event_generator: its task_id argument
    slast,      \* event_generator: last_index
    sbatch,     \* event_generator: new_events from the record being yielded on
    sdet,       \* event_generator: length of `history` if that list was dropped
                \* from histories during the batch, -1 while it is the task's list
    selapsed,   \* polling ticks since last_event_time, capped at HeartbeatTicks
    sslept,     \* whether the asyncio.sleep(0.5) of the stream has elapsed
    sout,       \* history variable: the progress records the subscriber got
    ssent,      \* clock: what a stream sent last, and the polling ticks since, capped
    enable_event_queue, \* BaseAgent.enable_event_queue
    should_plan,        \* BaseAgent.should_plan
    state,              \* BaseAgent.state
    current_step,       \* BaseAgent.current_step
    max_steps,          \* BaseAgent.max_steps
    should_terminate,   \* BaseAgent.should_terminate
    memory,             \* BaseAgent.memory.messages
    nstuck,             \* times handle_stuck_state prefixed next_step_prompt
    rpc,        \* a call of run: where it is suspended, or how it ended
    rreq,       \* a call of run: whether a request was given
    rprev,      \* a call of run: previous_state saved by state_context
    results,    \* a call of run: its results list
    nctx,       \* history variable: state_context calls that have exited
    nsc,        \* history variable: emit calls that named STATE_CHANGE
    pre_step,   \* ReActAgent.pre_step_input_tokens (pre_step_completion_tokens alike)
    scs,        \* history variable: the payloads state_context gave to emit
    llm_total,  \* self.llm.total_input_tokens (total_completion_tokens alike)
    step_counter, \* the agent's _step_counter attribute, kept by event_wrapper
    tcs,        \* history variable: the token-count payloads step gave to emit
    rlate,      \* history variable: think calls of iterations begun after terminate()
    clients,    \* MCPToolCallHost.clients: the dict, as its items in insertion order
    conns,      \* the MCPSandboxClients instances created, in creation order
    closed,     \* history variable: the instances whose exit stack was closed, in order
    sandbox,    \* the host's shared sandbox: "alive" or "deleted"
    hop,        \* calls on the host and its tools: where each is suspended, or its result
    lastCreate, \* history variable: how the last POST /tasks request ended
    ntasks,     \* history variable: dispatch tasks of the bus created and not done
    lastCall    \* history variable: the most recent of the bus's start/stop calls

busVars == <<queue, handlers, evflag, btask, bpc, cur, hidx, nput, busyPuts, ncalls, delivered, lastOk, lastOutcome>>
regVars == <<tasks, histories, ncreate, nrec, sappend>>
streamVars == <<spc, stask, slast, sbatch, sdet, selapsed, sslept, sout, ssent>>
agentVars == <<enable_event_queue, should_plan, state, current_step, max_steps,
               should_terminate, memory, nstuck, rpc, rreq, rprev, results, nctx, nsc,
                           pre_step, scs, llm_total, step_counter, tcs,
               rlate>>
hostVars == <<clients, conns, closed, sandbox, hop>>
routeVars == <<lastCreate>>
vars == <<busVars, regVars, streamVars, agentVars, hostVars, routeVars, ntasks, lastCall>>

\* What the bus's operations leave alone outside the bus and the registry, and
\* what the registry's and the streams' operations leave alone.
offBus == <<streamVars, agentVars, hostVars, routeVars, ntasks, lastCall>>
offReg == <<busVars, agentVars, hostVars, routeVars, ntasks, lastCall>>
offAgent == <<handlers, btask, bpc, cur, hidx, busyPuts, ncalls, delivered, lastOk,
              lastOutcome, regVars, streamVars, hostVars, routeVars, ntasks, lastCall>>

heartbeat_interval == 5     \* seconds
PollsPerSecond == 2         \* the stream sleeps 0.5 s between two polls
HeartbeatTicks == heartbeat_interval * PollsPerSecond

TaskIds == {"t1"}
Subscribers == {"s1"}
\* The calls of run made on one agent in one behaviour, in the order made.
Runs == {"r1", "r2"}
FirstRun == "r1"
NoTask == "-"
NoEvent == [name |-> <<>>]

\* ------------------------------------------------------------ EventItem
\* The fields of the EventItem NamedTuple (none has a default).
EventItemFields == {"name", "step", "timestamp", "content"}

\* EventItem(**kwargs): NamedTuple.__new__ takes exactly its fields.
EventItemNew(kwargs) ==
    IF DOMAIN kwargs = EventItemFields THEN [ok |-> TRUE, item |-> kwargs]
    ELSE [ok |-> FALSE, item |-> NoEvent]

\* ------------------------------------------------------------ handler calls
\* process_events calls every handler with these keyword arguments.
HandlerCallKwargs(e) == [event_name |-> e.name, step |-> e.step, content |-> e.content]

\* Parameters of a handler taking the bus's keywords, and of the one-parameter
\* lambda that run_task registers as progress recorder.
KeywordParams == {"event_name", "step", "content"}
RecorderParams == {"event"}

\* Python binds a call iff every parameter is given and no other keyword is.
Binds(params, kwargs) == DOMAIN kwargs = params

\* Attributes update_task_progress reads from its event.
RecorderReads == {"id", "parent_id", "name", "step", "content"}

\* The entry update_task_progress appends to hist for event
\* (ProgressEntryBadIndex: an entry numbered from 1 instead).
ProgressEntryBadIndex(hist, event) ==
    [index |-> Len(hist) + 1, id |-> event.id, parent_id |-> event.parent_id,
     type |-> "progress", name |-> event.name, step |-> event.step,
     content |-> event.content]
ProgressEntry(hist, event) ==
    [index |-> Len(hist), id |-> event.id, parent_id |-> event.parent_id,
     type |-> "progress", name |-> event.name, step |-> event.step,
     content |-> event.content]

\* update_task_progress(task_id, event): the histories after the call, and
\* whether it raised (AttributeError on an attribute the event lacks).
update_task_progress(t, event) ==
    IF tasks[t] = 0 THEN [raised |-> FALSE, hist |-> histories]
    ELSE IF ~(RecorderReads \subseteq DOMAIN event)
         THEN [raised |-> TRUE, hist |-> histories]
         ELSE [raised |-> FALSE,
               hist |-> [histories EXCEPT
                           ![t] = Append(@, ProgressEntry(@, event))]]

\* ------------------------------------------------------------ EventQueue
Min(S) == CHOOSE x \in S : \A y \in S : x <= y

\* deque.popleft(): the item taken and the deque left (pop_right: what
\* deque.pop() would take instead).
pop_right(q) == [item |-> q[Len(q)], rest |-> SubSeq(q, 1, Len(q) - 1)]
popleft(q) == [item |-> Head(q), rest |-> Tail(q)]

\* The first subscription at index >= from whose pattern matches, 0 if none:
\* the for loop over self._handlers with its pattern.match test.
\* NextMatchLast is a loop that takes the subscriptions latest first.
NextMatchLast(hs, name, from) ==
    LET S == {i \in from..Len(hs) : PatternMatch(hs[i].pattern, name)}
    IN IF S = {} THEN 0 ELSE CHOOSE x \in S : \A y \in S : y <= x
NextMatch(hs, name, from) ==
    LET S == {i \in from..Len(hs) : PatternMatch(hs[i].pattern, name)}
    IN IF S = {} THEN 0 ELSE Min(S)

\* Events popped without a matching subscription are dropped with a warning.
RECURSIVE SkipUnmatched(_, _)
SkipUnmatched(q, hs) ==
    IF q = <<>> THEN q
    ELSE IF NextMatch(hs, popleft(q).item.name, 1) # 0 THEN q
    ELSE SkipUnmatched(popleft(q).rest, hs)

\* await pattern.handler(**kwargs) for subscription i and event e: the call is
\* logged; the recorder lambda, when the call binds, runs update_task_progress.
Invoke(i, e) ==
    LET h == handlers[i]
        kwargs == HandlerCallKwargs(e)
        bound == Binds(h.params, kwargs)
        rec == IF bound /\ h.task # NoTask
               THEN update_task_progress(h.task, kwargs.event)
               ELSE [raised |-> FALSE, hist |-> histories]
    IN /\ bpc' = "handler"
       /\ cur' = e
       /\ hidx' = i
       /\ ncalls' = ncalls + 1
       /\ delivered' = delivered \cup {[sub |-> i, ev |-> e.timestamp]}
       /\ lastOk' = (bound /\ ~rec.raised)
       /\ histories' = rec.hist
       /\ sappend' = IF rec.hist # histories THEN [sappend EXCEPT ![h.task] = 0] ELSE sappend

\* The while loop of process_events from its top, with queue q, up to the next
\* await: the first handler call, or, the queue exhausted, _event.clear() and
\* the wait. No await separates the emptiness test from the clear.
DispatchLoop(q) ==
    LET q1 == SkipUnmatched(q, handlers)
    IN IF q1 = <<>>
       THEN /\ queue' = <<>>
            /\ evflag' = FALSE
            /\ bpc' = "wait"
            /\ cur' = NoEvent
            /\ hidx' = 0
            /\ UNCHANGED <<ncalls, delivered, lastOk, histories, sappend>>
       ELSE /\ queue' = popleft(q1).rest
            /\ Invoke(NextMatch(handlers, popleft(q1).item.name, 1), popleft(q1).item)
            /\ UNCHANGED evflag

\* EventQueue.put(event): append and set the flag; never suspends.
Put(name) ==
    /\ nput < MaxEvents
    /\ LET e == [name |-> name, step |-> 0, timestamp |-> nput + 1, content |-> "c"]
       IN /\ queue' = Append(queue, e)
          /\ busyPuts' = IF bpc = "handler" /\ ~PatternMatch(handlers[hidx].pattern, name)
                          THEN busyPuts \cup {nput + 1}
                          ELSE busyPuts
    /\ evflag' = TRUE
    /\ nput' = nput + 1
    /\ UNCHANGED <<handlers, btask, bpc, cur, hidx, ncalls, delivered, lastOk, lastOutcome, regVars, offBus>>

\* EventQueue.add_handler(event_pattern, handler) with a callable handler.
AddHandler(p, params, t) ==
    /\ Len(handlers) < MaxHandlers
    /\ handlers' = Append(handlers, [pattern |-> p, params |-> params, task |-> t])
    /\ UNCHANGED <<queue, evflag, btask, bpc, cur, hidx, nput, busyPuts, ncalls, delivered, lastOk, lastOutcome, regVars, offBus>>

\* EventQueue.start(): a new dispatch task unless one exists that is not done.
\* StartAlways is a start() without that test.
StartAlways ==
    /\ btask' = "running" /\ bpc' = "wait" /\ cur' = NoEvent /\ hidx' = 0
    /\ ntasks' = ntasks + 1
    /\ lastCall' = "start"
    /\ UNCHANGED <<queue, handlers, evflag, nput, busyPuts, ncalls, delivered, lastOk,
                   lastOutcome, regVars, streamVars, agentVars, hostVars, routeVars>>
Start ==
    /\ IF btask \in {"none", "done"}
       THEN /\ btask' = "running" /\ bpc' = "wait" /\ cur' = NoEvent /\ hidx' = 0
            /\ ntasks' = ntasks + 1
       ELSE UNCHANGED <<btask, bpc, cur, hidx, ntasks>>
    /\ lastCall' = "start"
    /\ UNCHANGED <<queue, handlers, evflag, nput, busyPuts, ncalls, delivered, lastOk,
                   lastOutcome, regVars, streamVars, agentVars, hostVars, routeVars>>

\* EventQueue.stop(): request cancellation of a dispatch task that is not done.
Stop ==
    /\ IF btask \in {"running", "cancelling"}
       THEN btask' = "cancelling"
       ELSE UNCHANGED btask
    /\ lastCall' = "stop"
    /\ UNCHANGED <<queue, handlers, evflag, bpc, cur, hidx, nput, busyPuts, ncalls,
                   delivered, lastOk, lastOutcome, regVars, streamVars, agentVars,
                   hostVars, routeVars, ntasks>>

\* The cancelled task resumes with CancelledError at its await (the wait or the
\* handler call); `except asyncio.CancelledError: break` ends it.
TaskCancelled ==
    /\ btask = "cancelling"
    /\ btask' = "done"
    /\ ntasks' = ntasks - 1
    /\ bpc' = "wait"
    /\ cur' = NoEvent
    /\ hidx' = 0
    /\ UNCHANGED lastCall
    /\ UNCHANGED <<queue, handlers, evflag, nput, busyPuts, ncalls, delivered, lastOk,
                   lastOutcome, regVars, streamVars, agentVars, hostVars, routeVars>>

\* await self._event.wait() returns: the flag is set.
Wake ==
    /\ btask = "running"
    /\ bpc = "wait"
    /\ evflag
    /\ DispatchLoop(queue)
    /\ UNCHANGED <<handlers, btask, nput, busyPuts, lastOutcome, tasks, ncreate, nrec, offBus>>

HandlerDoneRaiseSkips(outcome) ==
    /\ btask = "running"
    /\ bpc = "handler"
    /\ lastOk \/ outcome = "raise"
    /\ lastOutcome' = outcome
    /\ LET n == NextMatch(handlers, cur.name, hidx + 1)
       IN IF n # 0 /\ outcome = "return"
          THEN Invoke(n, cur) /\ UNCHANGED <<queue, evflag>>
          ELSE DispatchLoop(queue)
    /\ UNCHANGED <<handlers, btask, nput, busyPuts, tasks, ncreate, nrec, offBus>>

\* The awaited handler call ends: it returns, or raises an Exception that is
\* caught and logged; a call that did not bind raised TypeError. Then the next
\* matching subscription for the same event, or the loop's next round.
HandlerDone(outcome) ==
    /\ btask = "running"
    /\ bpc = "handler"
    /\ lastOk \/ outcome = "raise"
    /\ lastOutcome' = outcome
    /\ LET n == NextMatch(handlers, cur.name, hidx + 1)
       IN IF n # 0
          THEN Invoke(n, cur) /\ UNCHANGED <<queue, evflag>>
          ELSE DispatchLoop(queue)
    /\ UNCHANGED <<handlers, btask, nput, busyPuts, tasks, ncreate, nrec, offBus>>

\* A new EventQueue, but for its dispatch task.
InitQueue ==
    /\ queue = <<>>
    /\ handlers = <<>>
    /\ evflag = FALSE
    /\ bpc = "wait"
    /\ cur = NoEvent
    /\ hidx = 0
    /\ nput = 0
    /\ busyPuts = {}
    /\ ncalls = 0
    /\ delivered = {}
    /\ lastOk = TRUE
    /\ lastOutcome = "none"

InitBus == InitQueue /\ btask = "none" /\ ntasks = 0 /\ lastCall = "none"

InitReg ==
    /\ tasks = [t \in TaskIds |-> 0]
    /\ histories = [t \in TaskIds |-> <<>>]
    /\ ncreate = 0
    /\ nrec = 0
    /\ sappend = [t \in TaskIds |-> HeartbeatTicks]

InitStreams ==
    /\ spc = [s \in Subscribers |-> "none"]
    /\ stask = [s \in Subscribers |-> NoTask]
    /\ slast = [s \in Subscribers |-> 0]
    /\ sbatch = [s \in Subscribers |-> <<>>]
    /\ sdet = [s \in Subscribers |-> -1]
    /\ selapsed = [s \in Subscribers |-> 0]
    /\ ssent = [s \in Subscribers |-> [what |-> "none", ticks |-> 0]]
    /\ sslept = [s \in Subscribers |-> FALSE]
    /\ sout = [s \in Subscribers |-> <<>>]

\* A new MCPToolCallHost, no call made on it.
Ops == {"o1", "o2"}
IdleOp ==
    [op |-> "idle", pc |-> "idle", client_id |-> <<>>, conn |-> 0, client_ids |-> <<>>,
     rest |-> <<>>, ret |-> "none"]

InitHost ==
    /\ clients = <<>>
    /\ conns = <<>>
    /\ closed = <<>>
    /\ sandbox = "alive"
    /\ hop = [o \in Ops |-> IdleOp]

\* No POST /tasks request was handled yet.
InitRoute == lastCreate = [status |-> "none", flip |-> FALSE]

\* Agent variables of behaviours that have no agent.
NoAgent ==
    /\ enable_event_queue = TRUE
    /\ should_plan = FALSE
    /\ state = "IDLE"
    /\ current_step = 0
    /\ max_steps = 0
    /\ should_terminate = FALSE
    /\ memory = <<>>
    /\ nstuck = 0
    /\ rpc = [r \in Runs |-> "none"]
    /\ rreq = [r \in Runs |-> FALSE]
    /\ rprev = [r \in Runs |-> "IDLE"]
    /\ results = [r \in Runs |-> [steps |-> 0, maxed |-> 0]]
    /\ rlate = [r \in Runs |-> 0]
    /\ nctx = 0
    /\ nsc = 0
    /\ pre_step = 0
    /\ scs = {}
    /\ llm_total = 0
    /\ step_counter = 0
    /\ tcs = <<>>

Init == InitBus /\ InitReg /\ InitStreams /\ NoAgent /\ InitHost /\ InitRoute

\* Subscriptions: handlers taking the bus's keywords on a subtree or on one
\* name, and the progress recorder that run_task registers on r"agent:.*".
Subscriptions ==
    {[pattern |-> p, params |-> KeywordParams, task |-> NoTask] : p \in {PatStep, PatStart}}
      \cup {[pattern |-> PatAll, params |-> RecorderParams, task |-> t] : t \in TaskIds}

NextBus ==
    \/ \E n \in BusNames : Put(n)
    \/ \E h \in Subscriptions : AddHandler(h.pattern, h.params, h.task)
    \/ Start
    \/ Stop
    \/ TaskCancelled
    \/ Wake
    \/ \E o \in {"return", "raise"} : HandlerDone(o)

SpecBus == Init /\ [][NextBus]_vars

\* One bus whose dispatch task runs for the whole behaviour: the agent's
\* constructor starts it (initialize_agent) and nothing stops it.
\* The registry after one create_task.
InitRegistered ==
    /\ tasks = [t \in TaskIds |-> 1]
    /\ histories = [t \in TaskIds |-> <<>>]
    /\ ncreate = 1
    /\ nrec = 0
    /\ sappend = [t \in TaskIds |-> HeartbeatTicks]

InitDispatch ==
    InitQueue /\ btask = "running" /\ ntasks = 1 /\ lastCall = "start" /\ InitRegistered /\ InitStreams /\ NoAgent /\ InitHost /\ InitRoute

NextDispatch ==
    \/ \E n \in BusNames : Put(n)
    \/ \E h \in Subscriptions : AddHandler(h.pattern, h.params, h.task)
    \/ Wake
    \/ \E o \in {"return", "raise"} : HandlerDone(o)

\* A step of the dispatch task, and the states in which it can take one: it
\* is ready to resume from the wait, or the handler call it awaits can end.
DispatchStep == Wake \/ \E o \in {"return", "raise"} : HandlerDone(o)
DispatchReady ==
    btask = "running" /\ (bpc = "handler" \/ (bpc = "wait" /\ evflag))

\* The event loop resumes a ready task and an awaited handler call ends: weak
\* fairness of DispatchStep, WF_vars(DispatchStep), with ENABLED written out
\* as DispatchReady.
SpecDispatch ==
    /\ InitDispatch
    /\ [][NextDispatch]_vars
    /\ ([]<>(~DispatchReady) \/ []<><<DispatchStep>>_vars)

\* ------------------------------------------------------------ TaskManager
MaxCreates == 2       \* create_task calls in one behaviour
MaxAppends == 3       \* update_task_progress calls in one behaviour

\* Streams whose local `history` is the list that task t is about to lose keep
\* that list, which stops growing: its length is remembered.
Detach(t) ==
    [s \in Subscribers |->
        IF spc[s] = "yield" /\ stask[s] = t /\ sdet[s] = -1
        THEN Len(histories[t]) ELSE sdet[s]]

\* create_task(task_id, agent): (re)registers the id with an empty history.
CreateTask(t) ==
    /\ ncreate < MaxCreates
    /\ ncreate' = ncreate + 1
    /\ tasks' = [tasks EXCEPT ![t] = ncreate + 1]
    /\ histories' = [histories EXCEPT ![t] = <<>>]
    /\ sdet' = Detach(t)
    /\ UNCHANGED <<nrec, sappend, spc, stask, slast, sbatch, selapsed, sslept, sout, ssent, offReg>>

\* remove_task(task_id): drops the task and its history if registered.
RemoveTask(t) ==
    /\ tasks[t] # 0
    /\ tasks' = [tasks EXCEPT ![t] = 0]
    /\ histories' = [histories EXCEPT ![t] = <<>>]
    /\ sdet' = Detach(t)
    /\ UNCHANGED <<ncreate, nrec, sappend, spc, stask, slast, sbatch, selapsed, sslept, sout, ssent, offReg>>

RecorderNames == {STEP_START, LIFECYCLE_COMPLETE}

\* The event object handed to update_task_progress: an EventItem, or an object
\* that has every attribute the recorder reads. Its id is fresh (a uuid4).
EventObject(name, full) ==
    IF full
    THEN [id |-> nrec + 1, parent_id |-> "none", name |-> name, step |-> 0,
          timestamp |-> nrec + 1, content |-> "c"]
    ELSE [name |-> name, step |-> 0, timestamp |-> nrec + 1, content |-> "c"]

UpdateTaskProgressWhenRead(t, name, full) ==
    /\ \A s \in Subscribers : spc[s] # "yield"
    /\ nrec < MaxAppends
    /\ nrec' = nrec + 1
    /\ histories' = update_task_progress(t, EventObject(name, full)).hist
    /\ sappend' = IF histories' # histories THEN [sappend EXCEPT ![t] = 0] ELSE sappend
    /\ UNCHANGED <<tasks, ncreate, streamVars, offReg>>

\* update_task_progress(task_id, event).
UpdateTaskProgress(t, name, full) ==
    /\ nrec < MaxAppends
    /\ nrec' = nrec + 1
    /\ histories' = update_task_progress(t, EventObject(name, full)).hist
    /\ sappend' = IF histories' # histories THEN [sappend EXCEPT ![t] = 0] ELSE sappend
    /\ UNCHANGED <<tasks, ncreate, streamVars, offReg>>

\* The recorder lambda that run_task subscribed on the bus of agent g, the g-th
\* agent registered under t, calls update_task_progress(task_id=t, event): the
\* lambda holds the id, not the agent. The event's content tells which agent
\* emitted it.
RecorderCall(t, g, name) ==
    /\ g \in 1..ncreate
    /\ nrec < MaxAppends
    /\ nrec' = nrec + 1
    /\ histories' = update_task_progress(t, [EventObject(name, TRUE)
                                               EXCEPT !.content = g]).hist
    /\ sappend' = IF histories' # histories THEN [sappend EXCEPT ![t] = 0] ELSE sappend
    /\ UNCHANGED <<tasks, ncreate, streamVars, offReg>>

\* The registry with the recorders of every agent that was registered.
NextSupersede ==
    \/ \E t \in TaskIds : CreateTask(t)
    \/ \E t \in TaskIds : RemoveTask(t)
    \/ \E t \in TaskIds, g \in 1..MaxCreates, n \in RecorderNames :
          RecorderCall(t, g, n)

SpecSupersede == Init /\ [][NextSupersede]_vars

\* history[last_index:]
Slice(hist, from) ==
    IF from >= Len(hist) THEN <<>> ELSE SubSeq(hist, from + 1, Len(hist))

\* now - last_event_time >= heartbeat_interval
HeartbeatDueAlways(elapsed) == TRUE
HeartbeatDue(elapsed) == elapsed >= HeartbeatTicks

\* One round of the generator's while loop up to its next suspension: a yield
\* of the first new record, a yield of a heartbeat, or the sleep.
PollBody(s, t, last, elapsed) ==
    LET new == Slice(histories[t], last)
    IN IF new # <<>>
       THEN /\ spc' = [spc EXCEPT ![s] = "yield"]
            /\ sbatch' = [sbatch EXCEPT ![s] = new]
            /\ sout' = [sout EXCEPT ![s] = Append(@, new[1])]
            /\ sdet' = [sdet EXCEPT ![s] = -1]
            /\ selapsed' = [selapsed EXCEPT ![s] = elapsed]
            /\ ssent' = [ssent EXCEPT ![s] = [what |-> "record", ticks |-> 0]]
            /\ UNCHANGED sslept
       ELSE IF HeartbeatDue(elapsed)
       THEN /\ spc' = [spc EXCEPT ![s] = "heartbeat"]
            /\ selapsed' = [selapsed EXCEPT ![s] = 0]
            /\ ssent' = [ssent EXCEPT ![s] = [what |-> "heartbeat", ticks |-> 0]]
            /\ UNCHANGED <<sbatch, sout, sdet, sslept>>
       ELSE /\ spc' = [spc EXCEPT ![s] = "sleep"]
            /\ sslept' = [sslept EXCEPT ![s] = FALSE]
            /\ selapsed' = [selapsed EXCEPT ![s] = elapsed]
            /\ UNCHANGED <<sbatch, sout, sdet, ssent>>

StreamOpenUnchecked(s, t) ==
    /\ spc[s] = "none"
    /\ stask' = [stask EXCEPT ![s] = t]
    /\ slast' = [slast EXCEPT ![s] = 0]
    /\ PollBody(s, t, 0, 0)
    /\ UNCHANGED <<regVars, offReg>>

\* The consumer starts iterating event_generator(task_id): an unknown id gives
\* the error record; otherwise the first round of the loop runs.
StreamOpen(s, t) ==
    /\ spc[s] = "none"
    /\ stask' = [stask EXCEPT ![s] = t]
    /\ slast' = [slast EXCEPT ![s] = 0]
    /\ IF tasks[t] = 0
       THEN /\ spc' = [spc EXCEPT ![s] = "error"]
            /\ ssent' = [ssent EXCEPT ![s] = [what |-> "error", ticks |-> 0]]
            /\ UNCHANGED <<sbatch, sdet, selapsed, sslept, sout>>
       ELSE PollBody(s, t, 0, 0)
    /\ UNCHANGED <<regVars, offReg>>

\* len(history) at the end of a batch: of the list fetched when the batch began.
BatchEndLen(s) ==
    IF sdet[s] = -1 THEN Len(histories[stask[s]]) ELSE sdet[s]

\* The consumer asks for the next record and the generator resumes after its
\* yield: it ends after the error record or a lifecycle-complete record, yields
\* the next record of the batch, or ends the batch and sleeps.
StreamNext(s) ==
    /\ spc[s] \in {"error", "heartbeat", "yield"}
    /\ IF spc[s] = "error"
       THEN /\ spc' = [spc EXCEPT ![s] = "end"]
            /\ UNCHANGED <<slast, sbatch, sdet, selapsed, sslept, sout, ssent>>
       ELSE IF spc[s] = "heartbeat"
       THEN /\ spc' = [spc EXCEPT ![s] = "sleep"]
            /\ sslept' = [sslept EXCEPT ![s] = FALSE]
            /\ UNCHANGED <<slast, sbatch, sdet, selapsed, sout, ssent>>
       ELSE IF Head(sbatch[s]).name = LIFECYCLE_COMPLETE
       THEN /\ spc' = [spc EXCEPT ![s] = "end"]
            /\ UNCHANGED <<slast, sbatch, sdet, selapsed, sslept, sout, ssent>>
       ELSE IF Tail(sbatch[s]) # <<>>
       THEN /\ sbatch' = [sbatch EXCEPT ![s] = Tail(@)]
            /\ sout' = [sout EXCEPT ![s] = Append(@, Tail(sbatch[s])[1])]
            /\ ssent' = [ssent EXCEPT ![s] = [what |-> "record", ticks |-> 0]]
            /\ UNCHANGED <<spc, slast, sdet, selapsed, sslept>>
       ELSE /\ slast' = [slast EXCEPT ![s] = BatchEndLen(s)]
            /\ selapsed' = [selapsed EXCEPT ![s] = 0]
            /\ spc' = [spc EXCEPT ![s] = "sleep"]
            /\ sslept' = [sslept EXCEPT ![s] = FALSE]
            /\ sbatch' = [sbatch EXCEPT ![s] = <<>>]
            /\ UNCHANGED <<sdet, sout, ssent>>
    /\ UNCHANGED <<stask, regVars, offReg>>

\* await asyncio.sleep(0.5) returns and the next round of the loop runs.
StreamWake(s) ==
    /\ spc[s] = "sleep"
    /\ sslept[s]
    /\ PollBody(s, stask[s], slast[s], selapsed[s])
    /\ UNCHANGED <<stask, slast, regVars, offReg>>

\* Half a second passes: what the streams see of it.
TickBody ==
    /\ \E s \in Subscribers : spc[s] \notin {"none", "end", "error"}
    /\ selapsed' = [s \in Subscribers |->
                      IF spc[s] \in {"none", "end", "error"} \/ selapsed[s] >= HeartbeatTicks
                      THEN selapsed[s] ELSE selapsed[s] + 1]
    /\ sslept' = [s \in Subscribers |-> sslept[s] \/ spc[s] = "sleep"]
    /\ UNCHANGED <<spc, stask, slast, sbatch, sdet, sout, tasks, histories, ncreate, nrec,
                   offReg>>

Tick == TickBody /\ UNCHANGED <<ssent, sappend>>

\* Half a second passes, and the clocks that measure the time since the last
\* record or heartbeat sent and since the last append advance with it.
TickClocks ==
    /\ TickBody
    /\ ssent' = [s \in Subscribers |->
                   IF spc[s] \in {"none", "end", "error"} \/ ssent[s].ticks >= HeartbeatTicks
                   THEN ssent[s] ELSE [ssent[s] EXCEPT !.ticks = @ + 1]]
    /\ sappend' = [t \in TaskIds |->
                     IF sappend[t] >= HeartbeatTicks THEN sappend[t] ELSE sappend[t] + 1]

NextReg ==
    \/ \E t \in TaskIds : CreateTask(t)
    \/ \E t \in TaskIds : RemoveTask(t)
    \/ \E t \in TaskIds, n \in RecorderNames, full \in BOOLEAN : UpdateTaskProgress(t, n, full)
    \/ \E s \in Subscribers, t \in TaskIds : StreamOpen(s, t)
    \/ \E s \in Subscribers : StreamNext(s)
    \/ \E s \in Subscribers : StreamWake(s)
    \/ Tick

SpecReg == Init /\ [][NextReg]_vars

\* The registry and a stream with the clocks running.
NextBeat ==
    \/ \E t \in TaskIds : CreateTask(t)
    \/ \E t \in TaskIds : RemoveTask(t)
    \/ \E t \in TaskIds, n \in RecorderNames : UpdateTaskProgress(t, n, TRUE)
    \/ \E s \in Subscribers, t \in TaskIds : StreamOpen(s, t)
    \/ \E s \in Subscribers : StreamNext(s)
    \/ \E s \in Subscribers : StreamWake(s)
    \/ TickClocks

SpecBeat == Init /\ [][NextBeat]_vars

\* ------------------------------------------------------------ BaseAgent

duplicate_threshold == 2

LIFECYCLE_PREPARE_START == <<"agent", "lifecycle", "prepare", "start">>
LIFECYCLE_PREPARE_COMPLETE == <<"agent", "lifecycle", "prepare", "complete">>
LIFECYCLE_TERMINATING == <<"agent", "lifecycle", "terminating">>
LIFECYCLE_TERMINATED == <<"agent", "lifecycle", "terminated">>
STATE_CHANGE == <<"agent", "lifecycle", "state", "change">>
STATE_STUCK_DETECTED == <<"agent", "lifecycle", "state", "stuck_detected">>
STATE_STUCK_HANDLED == <<"agent", "lifecycle", "state", "stuck_handled">>
STEP_MAX_REACHED == <<"agent", "lifecycle", "step_max_reached">>
MEMORY_ADDED == <<"agent", "lifecycle", "memory", "added">>
STEP_COMPLETE == <<"agent", "lifecycle", "step", "complete">>
STEP_ERROR == <<"agent", "lifecycle", "step", "error">>
THINK_START == <<"agent", "lifecycle", "step", "think", "start">>
THINK_COMPLETE == <<"agent", "lifecycle", "step", "think", "complete">>
THINK_TOKEN_COUNT == <<"agent", "lifecycle", "step", "think", "token", "count">>
ACT_START == <<"agent", "lifecycle", "step", "act", "start">>
ACT_COMPLETE == <<"agent", "lifecycle", "step", "act", "complete">>
ACT_TOKEN_COUNT == <<"agent", "lifecycle", "step", "act", "token", "count">>

\* The agent and its bus as one coroutine sees and changes them between two of
\* its awaits; `raised` is set when a call in the block raised.
Self(r) ==
    [state |-> state, current_step |-> current_step,
     should_terminate |-> should_terminate, memory |-> memory, nstuck |-> nstuck,
     queue |-> queue, evflag |-> evflag, nput |-> nput,
     pc |-> rpc[r], prev |-> rprev[r], results |-> results[r], late |-> rlate[r],
     nctx |-> nctx, nsc |-> nsc, pre_step |-> pre_step, scs |-> scs,
     step_counter |-> step_counter, tcs |-> tcs,
     raised |-> FALSE]

\* The keyword arguments emit gives to EventItem.
EmitKwargs(a, name, content) ==
    [id |-> a.nput + 1, parent_id |-> "none", name |-> name,
     step |-> a.current_step, timestamp |-> a.nput + 1, content |-> content]

\* emit(name, data): nothing without the event queue; otherwise the EventItem is
\* built (TypeError when the keywords are not its fields) and put on the queue.
emit(a, name, content) ==
    IF ~enable_event_queue THEN a
    ELSE LET made == EventItemNew(EmitKwargs(a, name, content))
         IN IF made.ok
            THEN [a EXCEPT !.queue = Append(@, made.item), !.evflag = TRUE,
                           !.nput = @ + 1]
            ELSE [a EXCEPT !.raised = TRUE]

max_messages == 100

\* Memory.add_message(message): append, then keep the last max_messages.
add_message(mem, msg) ==
    LET m1 == Append(mem, msg)
    IN IF Len(m1) > max_messages
       THEN SubSeq(m1, Len(m1) - max_messages + 1, Len(m1))
       ELSE m1

\* is_stuck_inclusive: a count that does not leave the last message out.
is_stuck_inclusive(mem) ==
    IF Len(mem) < 2 THEN FALSE
    ELSE IF mem[Len(mem)].content = "" THEN FALSE
    ELSE Cardinality({i \in 1..Len(mem) :
                         mem[i].role = "assistant"
                         /\ mem[i].content = mem[Len(mem)].content})
            >= duplicate_threshold

\* is_stuck(): the last message's content repeats among the earlier assistant
\* messages at least duplicate_threshold times.
is_stuck(mem) ==
    IF Len(mem) < 2 THEN FALSE
    ELSE IF mem[Len(mem)].content = "" THEN FALSE
    ELSE Cardinality({i \in 1..(Len(mem) - 1) :
                         mem[i].role = "assistant"
                         /\ mem[i].content = mem[Len(mem)].content})
            >= duplicate_threshold

\* update_memory(role, content): append the message, emit MEMORY_ADDED.
update_memory(a, role, content) ==
    emit([a EXCEPT !.memory = add_message(@, [role |-> role, content |-> content])],
         MEMORY_ADDED, "c")

\* state_context(new_state) up to its yield.
StateContextEnter(a, new) ==
    emit([a EXCEPT !.prev = a.state, !.state = new, !.nsc = @ + 1,
                   !.scs = @ \cup {[path |-> "enter", old_state |-> a.state,
                                    new_state |-> new, before |-> a.state,
                                    after |-> new]}],
         STATE_CHANGE, <<a.state, new>>)

\* state_context: the except clause, for an exception raised in the body.
StateContextError(a) ==
    emit([a EXCEPT !.state = "ERROR", !.nsc = @ + 1,
                   !.scs = @ \cup {[path |-> "error", old_state |-> "ERROR",
                                    new_state |-> "ERROR", before |-> a.state,
                                    after |-> "ERROR"]}],
         STATE_CHANGE, <<"ERROR", "ERROR">>)

\* state_context: the finally clause.
StateContextExit(a) ==
    [emit([a EXCEPT !.state = a.prev, !.nsc = @ + 1,
                    !.scs = @ \cup {[path |-> "revert", old_state |-> a.prev,
                                     new_state |-> a.prev, before |-> a.state,
                                     after |-> a.prev]}],
          STATE_CHANGE, <<a.prev, a.prev>>)
        EXCEPT !.nctx = @ + 1]

\* run after the state_context block: the terminated or the complete event.
RunEnd(a) ==
    [emit(a, IF a.should_terminate THEN LIFECYCLE_TERMINATED ELSE LIFECYCLE_COMPLETE, "c")
        EXCEPT !.pc = "returned"]

\* run after the while loop: the max-steps outcome when current_step has
\* reached max_steps, then the exit of state_context and the end of run.
LoopExit(a) ==
    LET a1 == IF a.current_step >= max_steps
              THEN [emit([a EXCEPT !.current_step = 0, !.state = "IDLE"],
                         STEP_MAX_REACHED, "c")
                      EXCEPT !.results = [@ EXCEPT !.maxed = @ + 1]]
              ELSE a
    IN RunEnd(StateContextExit(a1))

\* event_wrapper up to its first emit: the method's counter, then the start
\* event whose data carry the count.
WrapperEnter(a) ==
    LET a1 == [a EXCEPT !.step_counter = @ + 1]
    IN emit(a1, STEP_START, [method |-> "step", count |-> a1.step_counter])

\* step() from the wrapper's start event up to the await of think.
StepEnter(a) ==
    [emit(WrapperEnter(a), THINK_START, "c") EXCEPT !.pc = "think"]

\* The while loop's body up to the await of think: current_step, then step().
StepBegin(a) ==
    LET a1 == [a EXCEPT !.current_step = @ + 1,
                        !.late = IF a.should_terminate THEN @ + 1 ELSE @]
    IN StepEnter(a1)

\* The while loop's test; LoopTopOffByOne is a loop testing <= instead, which
\* the step bound must tell apart from the code's.
LoopTopOffByOne(a) ==
    IF a.current_step <= max_steps /\ a.state # "FINISHED"
    THEN StepBegin(a) ELSE LoopExit(a)
LoopTop(a) ==
    IF a.current_step < max_steps /\ a.state # "FINISHED"
    THEN StepBegin(a) ELSE LoopExit(a)

\* The while loop's body after step() returned: stuck detection, the result,
\* the should_terminate test; then the loop's next round.
StepEnd(a) ==
    LET a1 == IF is_stuck(a.memory)
              THEN emit([emit(a, STATE_STUCK_DETECTED, "c") EXCEPT !.nstuck = @ + 1],
                        STATE_STUCK_HANDLED, "c")
              ELSE a
        a2 == [a1 EXCEPT !.results = [@ EXCEPT !.steps = @ + 1]]
        a3 == IF a2.should_terminate THEN [a2 EXCEPT !.state = "FINISHED"] ELSE a2
    IN LoopTop(a3)

\* The block's result, computed once, becomes the state.
Commit(r, a) ==
    \E b \in {a} :
       /\ state' = b.state
       /\ current_step' = b.current_step
       /\ should_terminate' = b.should_terminate
       /\ memory' = b.memory
       /\ nstuck' = b.nstuck
       /\ queue' = b.queue
       /\ evflag' = b.evflag
       /\ nput' = b.nput
       /\ rpc' = [rpc EXCEPT ![r] = b.pc]
       /\ rprev' = [rprev EXCEPT ![r] = b.prev]
       /\ results' = [results EXCEPT ![r] = b.results]
       /\ rlate' = [rlate EXCEPT ![r] = b.late]
       /\ nctx' = b.nctx
       /\ nsc' = b.nsc
       /\ pre_step' = b.pre_step
       /\ scs' = b.scs
       /\ step_counter' = b.step_counter
       /\ tcs' = b.tcs
       /\ UNCHANGED llm_total

\* run(request) up to the await of prepare: RuntimeError unless the state is
\* IDLE; then the start event (whose emit may raise) and the prepare-start event.
\* RunGuardAlways is a run without the IDLE test.
RunGuardAlways(a) == TRUE
RunGuard(a) == a.state = "IDLE"

RunBegin(r, req) ==
    /\ rpc[r] = "none"
    /\ r # FirstRun => rpc[FirstRun] # "none"
    /\ IF ~RunGuard(Self(r))
       THEN /\ rpc' = [rpc EXCEPT ![r] = "rejected"]
            /\ UNCHANGED <<state, current_step, should_terminate, memory, nstuck,
                           queue, evflag, nput, rreq, rprev, results, rlate, nctx, nsc,
                           pre_step, scs, llm_total, step_counter, tcs>>
       ELSE LET a1 == emit(Self(r), LIFECYCLE_START, "c")
            IN IF a1.raised
               THEN /\ rpc' = [rpc EXCEPT ![r] = "emit_error"]
                    /\ UNCHANGED <<state, current_step, should_terminate, memory,
                                   nstuck, queue, evflag, nput, rreq, rprev,
                                   results, rlate, nctx, nsc,
                           pre_step, scs, llm_total, step_counter, tcs>>
               ELSE /\ Commit(r, [emit(a1, LIFECYCLE_PREPARE_START, "c")
                                     EXCEPT !.pc = "prepare"])
                    /\ rreq' = [rreq EXCEPT ![r] = req]
    /\ UNCHANGED <<enable_event_queue, should_plan, max_steps>>

RunCall(r, req) ==
    /\ RunBegin(r, req)
    /\ UNCHANGED offAgent

\* prepare() returned: the prepare-complete event, state_context(RUNNING), the
\* request added to memory, and the await of plan or the loop's first round.
PrepareDone(r) ==
    /\ rpc[r] = "prepare"
    /\ LET a1 == StateContextEnter(emit(Self(r), LIFECYCLE_PREPARE_COMPLETE, "c"),
                                   "RUNNING")
           a2 == IF rreq[r] THEN update_memory(a1, "user", "request") ELSE a1
       IN IF rreq[r] /\ should_plan
          THEN Commit(r, [a2 EXCEPT !.pc = "plan"])
          ELSE Commit(r, LoopTop(a2))
    /\ UNCHANGED <<enable_event_queue, should_plan, max_steps, rreq, offAgent>>

\* prepare() raised: run raises before state_context is entered.
PrepareFail(r) ==
    /\ rpc[r] = "prepare"
    /\ rpc' = [rpc EXCEPT ![r] = "prepare_error"]
    /\ UNCHANGED <<enable_event_queue, should_plan, state, current_step, max_steps,
                   should_terminate, memory, nstuck, queue, evflag, nput, rreq,
                   rprev, results, rlate, nctx, nsc,
                           pre_step, scs, llm_total, step_counter, tcs, offAgent>>

\* plan() returned.
PlanDone(r) ==
    /\ rpc[r] = "plan"
    /\ Commit(r, LoopTop(Self(r)))
    /\ UNCHANGED <<enable_event_queue, should_plan, max_steps, rreq, offAgent>>

\* step's test after think: act is awaited when think asked for it or when
\* termination was requested. ActNeededAlways is a step that always acts.
ActNeededAlways(should_act, terminate) == TRUE
ActNeeded(should_act, terminate) == should_act \/ terminate

\* The delta step reports: the cumulative counter less its value at the last
\* report. TokenDeltaTotal is a step reporting the cumulative counter itself.
TokenDeltaTotal(total, pre) == total
TokenDelta(total, pre) == total - pre

\* step's token report after think or act: the payload with the delta and the
\* cumulative counter is given to emit, then pre_step_input_tokens is set.
TokenCount(a, name) ==
    LET data == [input |-> TokenDelta(llm_total, a.pre_step),
                 total_input |-> llm_total]
    IN [emit(a, name, data) EXCEPT !.pre_step = llm_total, !.tcs = Append(@, data)]

\* step() after think returned should_act, having added the assistant's
\* message: the token-count and think-complete events; then the step returns
\* without acting (the wrapper's complete event), or the act-start event and
\* the await of act.
ThinkReturned(a, should_act) ==
    LET a1 == [a EXCEPT !.memory =
                            add_message(@, [role |-> "assistant", content |-> "x"])]
        a2 == emit(TokenCount(a1, THINK_TOKEN_COUNT), THINK_COMPLETE, "c")
    IN IF ~ActNeeded(should_act, a2.should_terminate)
       THEN [emit(a2, STEP_COMPLETE, [method |-> "step", count |-> a2.step_counter])
                EXCEPT !.pc = "step_returned"]
       ELSE [emit(a2, ACT_START, "c") EXCEPT !.pc = "act"]

\* step() after act returned, its tool having asked for termination or not:
\* the token-count and act-complete events and the wrapper's complete event.
ActReturned(a, term) ==
    LET a1 == [a EXCEPT !.should_terminate = @ \/ term]
    IN [emit(emit(TokenCount(a1, ACT_TOKEN_COUNT), ACT_COMPLETE, "c"),
             STEP_COMPLETE, [method |-> "step", count |-> a1.step_counter])
          EXCEPT !.pc = "step_returned"]

\* think() returned inside run's loop.
ThinkDone(r, should_act) ==
    /\ rpc[r] = "think"
    /\ LET a == ThinkReturned(Self(r), should_act)
       IN IF a.pc = "act" THEN Commit(r, a) ELSE Commit(r, StepEnd(a))
    /\ UNCHANGED <<enable_event_queue, should_plan, max_steps, rreq, offAgent>>

\* act() returned, its tool having asked for termination or not: the
\* token-count, act-complete and step-complete events, then the loop goes on.
ActDone(r, term) ==
    /\ rpc[r] = "act"
    /\ Commit(r, StepEnd(ActReturned(Self(r), term)))
    /\ UNCHANGED <<enable_event_queue, should_plan, max_steps, rreq, offAgent>>

\* plan, think or act raised: the step wrapper's error event (for a step), the
\* except and finally clauses of state_context, and run raises.
BodyFail(r) ==
    /\ rpc[r] \in {"plan", "think", "act"}
    /\ LET a0 == Self(r)
           a1 == IF rpc[r] = "plan" THEN a0
                 ELSE emit(a0, STEP_ERROR, [method |-> "step", count |-> step_counter])
       IN Commit(r, [StateContextExit(StateContextError(a1)) EXCEPT !.pc = "step_error"])
    /\ UNCHANGED <<enable_event_queue, should_plan, max_steps, rreq, offAgent>>

\* terminate(): sets the flag, then emits (the emit may raise).
Terminate ==
    /\ should_terminate' = TRUE
    /\ LET a == emit([queue |-> queue, evflag |-> evflag, nput |-> nput,
                      current_step |-> current_step, raised |-> FALSE],
                     LIFECYCLE_TERMINATING, "c")
       IN queue' = a.queue /\ evflag' = a.evflag /\ nput' = a.nput
    /\ UNCHANGED <<enable_event_queue, should_plan, state, current_step, max_steps,
                   memory, nstuck, rpc, rreq, rprev, results, rlate, nctx, nsc,
                           pre_step, scs, llm_total, step_counter, tcs, offAgent>>

InitAgent ==
    /\ enable_event_queue \in BOOLEAN
    /\ should_plan \in BOOLEAN
    /\ state = "IDLE"
    /\ current_step = 0
    /\ max_steps \in 0..MaxSteps
    /\ should_terminate = FALSE
    /\ memory = <<>>
    /\ nstuck = 0
    /\ rpc = [r \in Runs |-> "none"]
    /\ rreq = [r \in Runs |-> FALSE]
    /\ rprev = [r \in Runs |-> "IDLE"]
    /\ results = [r \in Runs |-> [steps |-> 0, maxed |-> 0]]
    /\ rlate = [r \in Runs |-> 0]
    /\ nctx = 0
    /\ nsc = 0
    /\ pre_step = 0
    /\ scs = {}
    /\ llm_total = 0
    /\ step_counter = 0
    /\ tcs = <<>>

NextAgent ==
    \/ \E r \in Runs, req \in BOOLEAN : RunCall(r, req)
    \/ \E r \in Runs : PrepareDone(r)
    \/ \E r \in Runs : PrepareFail(r)
    \/ \E r \in Runs : PlanDone(r)
    \/ \E r \in Runs, should_act \in BOOLEAN : ThinkDone(r, should_act)
    \/ \E r \in Runs, term \in BOOLEAN : ActDone(r, term)
    \/ \E r \in Runs : BodyFail(r)
    \/ Terminate

\* An agent: its bus started by the constructor when the event queue is enabled.
InitAgentBus ==
    /\ InitAgent
    /\ InitQueue
    /\ btask = IF enable_event_queue THEN "running" ELSE "none"
    /\ ntasks = IF enable_event_queue THEN 1 ELSE 0
    /\ lastCall = IF enable_event_queue THEN "start" ELSE "none"
    /\ InitReg
    /\ InitStreams
    /\ InitHost
    /\ InitRoute

SpecAgent == InitAgentBus /\ [][NextAgent]_vars

\* ------------------------------------------------------------ step() by itself
MaxTokens == 2         \* largest cumulative token counter of the language model

\* The language model's cumulative counter grows (a request of think, of act,
\* or of another user of the model was answered); it never decreases.
LLMCall ==
    /\ llm_total < MaxTokens
    /\ \E n \in 1..(MaxTokens - llm_total) : llm_total' = llm_total + n
    /\ UNCHANGED <<enable_event_queue, should_plan, state, current_step, max_steps,
                   should_terminate, memory, nstuck, rpc, rreq, rprev, results,
                   rlate, nctx, nsc, pre_step, scs, step_counter, tcs, queue,
                   evflag, nput, offAgent>>

\* await agent.step() called by itself: the wrapper's counter and start event
\* (whose emit may raise, before the wrapper's try), then step up to the await
\* of think.
StepCall(r) ==
    /\ rpc[r] = "none"
    /\ r # FirstRun => rpc[FirstRun] # "none"
    /\ LET a == WrapperEnter(Self(r))
       IN IF a.raised
          THEN Commit(r, [a EXCEPT !.pc = "emit_error"])
          ELSE Commit(r, [StepEnter(Self(r)) EXCEPT !.pc = "step_think"])
    /\ UNCHANGED <<enable_event_queue, should_plan, max_steps, rreq, offAgent>>

\* think() returned to a step called by itself.
StepThinkDone(r, should_act) ==
    /\ rpc[r] = "step_think"
    /\ LET a == ThinkReturned(Self(r), should_act)
       IN Commit(r, [a EXCEPT !.pc = IF a.pc = "act" THEN "step_act" ELSE a.pc])
    /\ UNCHANGED <<enable_event_queue, should_plan, max_steps, rreq, offAgent>>

\* act() returned to a step called by itself.
StepActDone(r, term) ==
    /\ rpc[r] = "step_act"
    /\ Commit(r, ActReturned(Self(r), term))
    /\ UNCHANGED <<enable_event_queue, should_plan, max_steps, rreq, offAgent>>

\* think or act raised in a step called by itself: the wrapper's error event,
\* and the exception goes on to the caller.
StepFail(r) ==
    /\ rpc[r] \in {"step_think", "step_act"}
    /\ Commit(r, [emit(Self(r), STEP_ERROR,
                       [method |-> "step", count |-> step_counter])
                     EXCEPT !.pc = "step_raised"])
    /\ UNCHANGED <<enable_event_queue, should_plan, max_steps, rreq, offAgent>>

NextStep ==
    \/ NextAgent
    \/ LLMCall
    \/ \E r \in Runs : StepCall(r)
    \/ \E r \in Runs, should_act \in BOOLEAN : StepThinkDone(r, should_act)
    \/ \E r \in Runs, term \in BOOLEAN : StepActDone(r, term)
    \/ \E r \in Runs : StepFail(r)

SpecStep == InitAgentBus /\ [][NextStep]_vars

\* ------------------------------------------------------------ Memory
Roles == {"user", "assistant", "tool"}
Contents == {"", "x", "y"}

\* await self.memory.add_message(message) on a memory by itself.
AddMessage(role, content) ==
    /\ Len(memory) < MaxMessages
    /\ memory' = add_message(memory, [role |-> role, content |-> content])
    /\ UNCHANGED <<enable_event_queue, should_plan, state, current_step, max_steps,
                   should_terminate, nstuck, rpc, rreq, rprev, results, nctx, nsc,
                           pre_step, scs, llm_total, step_counter, tcs,
                   rlate, busVars, regVars, streamVars, hostVars, routeVars, ntasks, lastCall>>

NextMemory == \E role \in Roles, content \in Contents : AddMessage(role, content)

SpecMemory == Init /\ [][NextMemory]_vars

\* ------------------------------------------------------------ run_task
\* run_task(task_id, prompt) up to its first await: the recorder lambda is
\* subscribed to r"agent:.*" and the agent's run begins. An exception of run
\* is caught and logged, which ends run_task.
RunTask(t) ==
    /\ tasks[t] # 0
    /\ handlers = <<>>
    /\ handlers' = Append(handlers,
                          [pattern |-> PatAll, params |-> RecorderParams, task |-> t])
    /\ RunBegin(FirstRun, TRUE)
    /\ UNCHANGED <<btask, bpc, cur, hidx, busyPuts, ncalls, delivered, lastOk,
                   lastOutcome, regVars, streamVars, hostVars, routeVars, ntasks, lastCall>>

\* run returned: cleanup() is awaited and delayed_remove is scheduled.
RunTaskCleanup ==
    /\ rpc[FirstRun] = "returned"
    /\ rpc' = [rpc EXCEPT ![FirstRun] = "cleaned"]
    /\ UNCHANGED <<enable_event_queue, should_plan, state, current_step, max_steps,
                   should_terminate, memory, nstuck, queue, evflag, nput, rreq,
                   rprev, results, rlate, nctx, nsc,
                           pre_step, scs, llm_total, step_counter, tcs, offAgent>>

\* delayed_remove(task_id): the retention delay is over, remove_task runs.
DelayedRemove(t) ==
    /\ rpc[FirstRun] = "cleaned"
    /\ RemoveTask(t)

\* terminate_task(task_id): terminate() of a registered task's agent.
TerminateTask(t) ==
    /\ tasks[t] # 0
    /\ Terminate

AgentStep ==
    \/ \E r \in Runs : PrepareDone(r)
    \/ \E r \in Runs : PlanDone(r)
    \/ \E r \in Runs, should_act \in BOOLEAN : ThinkDone(r, should_act)
    \/ \E r \in Runs, term \in BOOLEAN : ActDone(r, term)

AgentFault ==
    \/ \E r \in Runs : PrepareFail(r)
    \/ \E r \in Runs : BodyFail(r)

StreamStep(s) ==
    \/ StreamNext(s)
    \/ StreamWake(s)

TaskEnd ==
    \/ RunTaskCleanup
    \/ \E t \in TaskIds : DelayedRemove(t)

\* One task created with its agent, as the create route leaves it before
\* run_task starts.
InitTask ==
    /\ InitAgent
    /\ InitQueue
    /\ btask = IF enable_event_queue THEN "running" ELSE "none"
    /\ ntasks = IF enable_event_queue THEN 1 ELSE 0
    /\ lastCall = IF enable_event_queue THEN "start" ELSE "none"
    /\ InitRegistered
    /\ InitStreams
    /\ InitHost
    /\ InitRoute

NextTask ==
    \/ \E t \in TaskIds : RunTask(t)
    \/ AgentStep
    \/ AgentFault
    \/ \E t \in TaskIds : TerminateTask(t)
    \/ TaskEnd
    \/ \E s \in Subscribers, t \in TaskIds : StreamOpen(s, t)
    \/ \E s \in Subscribers : StreamStep(s)
    \/ Tick

\* The event loop resumes every ready coroutine, awaited calls end, time
\* passes and the consumer keeps reading its stream.
SpecTask ==
    /\ InitTask
    /\ [][NextTask]_vars
    /\ WF_vars(AgentStep \/ AgentFault)
    /\ WF_vars(TaskEnd)
    /\ WF_vars(Tick)
    /\ \A s \in Subscribers : WF_vars(StreamStep(s))

\* The agent's side of a task with the recorder's appends, and its streams.
TaskSide ==
    \/ \E t \in TaskIds : RunTask(t)
    \/ AgentStep
    \/ AgentFault
    \/ \E t \in TaskIds : TerminateTask(t)
    \/ TaskEnd
    \/ \E t \in TaskIds : UpdateTaskProgress(t, STEP_START, TRUE)

StreamSide ==
    \/ \E s \in Subscribers, t \in TaskIds : StreamOpen(s, t)
    \/ \E s \in Subscribers : StreamStep(s)

NextFlow == TaskSide \/ StreamSide \/ Tick

SpecFlow == InitTask /\ [][NextFlow]_vars

\* ------------------------------------------------------------ POST /tasks
\* A form field holding JSON: not sent, not parseable, or parseable. The route
\* treats llm_config, history and tools that were not sent as valid ones.
FormFields == {"absent", "invalid", "valid"}

\* The first of the route's checks that answers 400, in the route's order.
Rejection(preferences, llm_config, history, tools) ==
    IF preferences = "invalid" THEN "preferences"
    ELSE IF llm_config = "invalid" THEN "llm_config"
    ELSE IF history = "invalid" THEN "history"
    ELSE IF tools = "invalid" THEN "tools"
    ELSE "none"

\* create_task route: the 400 checks; terminate() of the agent registered under
\* the id; the arguments and the constructor of Manus (preferences_dict is None
\* when the field was not sent, `built` is whether the constructor returns);
\* task_manager.create_task; the uploaded files (`saved`); run_task scheduled.
\* The agent variables follow the agent the registry holds for the id: on
\* success they are those of the new agent, built with enable_event_queue=True.
CreateTaskRoute(t, preferences, llm_config, history, tools, built, saved, plan, steps) ==
    LET rej == Rejection(preferences, llm_config, history, tools)
        registered == tasks[t] # 0
        a == emit([queue |-> queue, evflag |-> evflag, nput |-> nput,
                   current_step |-> current_step, raised |-> FALSE],
                  LIFECYCLE_TERMINATING, "c")
        End(status) == lastCreate' = [status |-> status, flip |-> ~lastCreate.flip]
    IN IF rej # "none"
       THEN /\ End("rejected")
            /\ UNCHANGED <<busVars, regVars, streamVars, agentVars, hostVars, ntasks, lastCall>>
       ELSE IF (registered /\ a.raised) \/ preferences = "absent" \/ ~built
       THEN /\ End("error")
            /\ should_terminate' = (registered \/ should_terminate)
            /\ queue' = IF registered THEN a.queue ELSE queue
            /\ evflag' = IF registered THEN a.evflag ELSE evflag
            /\ nput' = IF registered THEN a.nput ELSE nput
            /\ UNCHANGED <<enable_event_queue, should_plan, state, current_step,
                           max_steps, memory, nstuck, rpc, rreq, rprev, results,
                           rlate, nctx, nsc,
                           pre_step, scs, llm_total, step_counter, tcs, handlers, btask, bpc, cur, hidx,
                           busyPuts, ncalls, delivered, lastOk, lastOutcome,
                           regVars, streamVars, hostVars, ntasks, lastCall>>
       ELSE /\ ncreate < MaxCreates
            /\ End(IF saved THEN "created" ELSE "file_error")
            /\ ncreate' = ncreate + 1
            /\ tasks' = [tasks EXCEPT ![t] = ncreate + 1]
            /\ histories' = [histories EXCEPT ![t] = <<>>]
            /\ sdet' = Detach(t)
            /\ enable_event_queue' = TRUE /\ should_plan' = plan /\ max_steps' = steps
            /\ state' = "IDLE" /\ current_step' = 0 /\ should_terminate' = FALSE
            /\ memory' = <<>> /\ nstuck' = 0 /\ nctx' = 0 /\ nsc' = 0
            /\ pre_step' = 0 /\ scs' = {} /\ llm_total' = 0
            /\ step_counter' = 0 /\ tcs' = <<>>
            /\ rpc' = [r \in Runs |-> "none"]
            /\ rreq' = [r \in Runs |-> FALSE]
            /\ rprev' = [r \in Runs |-> "IDLE"]
            /\ results' = [r \in Runs |-> [steps |-> 0, maxed |-> 0]]
            /\ rlate' = [r \in Runs |-> 0]
            /\ queue' = <<>> /\ handlers' = <<>> /\ evflag' = FALSE /\ bpc' = "wait"
            /\ cur' = NoEvent /\ hidx' = 0 /\ nput' = 0 /\ busyPuts' = {}
            /\ ncalls' = 0 /\ delivered' = {} /\ lastOk' = TRUE
            /\ lastOutcome' = "none" /\ btask' = "running" /\ ntasks' = 1
            /\ lastCall' = "start"
            /\ UNCHANGED <<nrec, sappend, spc, stask, slast, sbatch, selapsed, sslept,
                           sout, ssent, hostVars>>

\* run_task starts once the route has scheduled it.
NextRoute ==
    \/ \E t \in TaskIds, preferences \in FormFields, llm_config \in FormFields \ {"absent"},
          history \in FormFields \ {"absent"}, tools \in FormFields \ {"absent"},
          built \in BOOLEAN, saved \in BOOLEAN, plan \in BOOLEAN, steps \in 0..MaxSteps :
            CreateTaskRoute(t, preferences, llm_config, history, tools, built, saved, plan, steps)
    \/ \E t \in TaskIds : lastCreate.status # "file_error" /\ RunTask(t)
    \/ AgentStep
    \/ AgentFault
    \/ \E t \in TaskIds : TerminateTask(t)
    \/ TaskEnd
    \/ \E t \in TaskIds : UpdateTaskProgress(t, STEP_START, TRUE)

SpecRoute == InitTask /\ [][NextRoute]_vars

\* ------------------------------------------------------------ MCPToolCallHost
MaxAdds == 2          \* MCPSandboxClients instances created on one host

offHost == <<busVars, regVars, streamVars, agentVars, routeVars, ntasks, lastCall>>

\* Client ids and remote tool names are strings, modelled as sequences of
\* characters so that f"{client_id}-{tool.name}" and slicing can be computed.
ClientIds == {<<"a">>, <<"a", "-", "b">>}
RemoteNames == {<<"c">>, <<"b", "-", "c">>}
Catalogs == {{<<"c">>}, RemoteNames}

\* Transports: an SSE url, a stdio command that is exec'ed in the sandbox
\* (uvx, npx, deno), a stdio docker command, and an empty url or a command
\* that get_command_type does not know.
Kinds == {"sse", "exec", "docker", "invalid"}

\* prefixed_name = f"{self.client_id}-{tool.name}"
PrefixedName(id, n) == id \o <<"-">> \o n

\* self.name[len(self.client_id) + 1 :] if self.client_id else self.name
ServerToolName(id, name) ==
    IF id # <<>> THEN SubSeq(name, Len(id) + 2, Len(name)) ELSE name

\* inst.container_name: get_container_name() for stdio; connect_sse leaves the
\* class default None.
get_container_name(kind) ==
    CASE kind = "docker" -> "sandbox-client"
      [] kind = "exec" -> "sandbox"
      [] OTHER -> "None"

\* client_id in self.clients, self.clients[client_id], list(self.clients.keys())
InTable(cl, id) == \E i \in 1..Len(cl) : cl[i].id = id
Lookup(cl, id) == cl[CHOOSE i \in 1..Len(cl) : cl[i].id = id].conn
list_clients(cl) == [i \in 1..Len(cl) |-> cl[i].id]
Reverse(q) == [i \in 1..Len(q) |-> q[Len(q) + 1 - i]]

\* self.clients.pop(client_id, None) and self.clients[client_id] = client: a
\* dict keeps insertion order, and assigning to a present key keeps its place.
PopClientKeep(cl, id) == cl
PopClient(cl, id) == SelectSeq(cl, LAMBDA e : e.id # id)
SetClient(cl, id, c) ==
    IF InTable(cl, id)
    THEN [i \in 1..Len(cl) |-> IF cl[i].id = id THEN [id |-> id, conn |-> c] ELSE cl[i]]
    ELSE Append(cl, [id |-> id, conn |-> c])

\* The host as one call sees and changes it between two of its awaits.
Host(o) ==
    [clients |-> clients, conns |-> conns, closed |-> closed, sandbox |-> sandbox,
     slot |-> hop[o]]

Return(h, value) == [h EXCEPT !.slot.pc = "done", !.slot.ret = value]

\* client.disconnect() up to its await: the exit stack is closed only when the
\* instance has a session.
DisconnectsNever(h, c) == FALSE
Disconnects(h, c) == h.conns[c].session = "set"

\* remove_client(id) inside disconnect_all's loop, from the head of the ids
\* left, up to the next await of an aclose().
RECURSIVE RunAll(_)
RunAll(h) ==
    IF h.slot.rest = <<>> THEN Return(h, "None")
    ELSE LET id == Head(h.slot.rest)
             h1 == [h EXCEPT !.slot.rest = Tail(@)]
         IN IF ~InTable(h1.clients, id) THEN RunAll(h1)
            ELSE LET c == Lookup(h1.clients, id)
                     h2 == [h1 EXCEPT !.clients = PopClient(@, id)]
                 IN IF Disconnects(h2, c)
                    THEN [h2 EXCEPT !.slot.pc = "closing", !.slot.conn = c]
                    ELSE RunAll(h2)

\* What follows the return of client.disconnect() in the call that awaited it.
AfterDisconnect(h) ==
    CASE h.slot.op = "add" -> Return(h, "RuntimeError")
      [] h.slot.op = "remove" -> Return(h, "True")
      [] OTHER -> RunAll(h)

CommitHost(o, h) ==
    /\ clients' = h.clients
    /\ conns' = h.conns
    /\ closed' = h.closed
    /\ sandbox' = h.sandbox
    /\ hop' = [hop EXCEPT ![o] = h.slot]
    /\ UNCHANGED offHost

\* No call is suspended on the host.
Free(o) == hop[o].pc \in {"idle", "done"}
Quiet == \A o \in Ops : Free(o)

\* add_sse_client / add_stdio_client up to the first await: ValueError for a
\* client_id in the table, ValueError from connect_* for an empty url or an
\* unsupported command; otherwise a new instance starts opening its transport.
AddGuardNone(cl, id) == FALSE
AddGuard(cl, id) == InTable(cl, id)

AddBegin(o, id, kind) ==
    /\ Free(o)
    /\ LET h == [Host(o) EXCEPT !.slot = [IdleOp EXCEPT !.op = "add", !.client_id = id]]
       IN IF AddGuard(clients, id) \/ kind = "invalid"
          THEN CommitHost(o, Return(h, "ValueError"))
          ELSE Len(conns) < MaxAdds /\ CommitHost(o, [h EXCEPT
                  !.conns = Append(@, [id |-> id, kind |-> kind, session |-> "none",
                                       stack |-> "new", tools |-> {}]),
                  !.slot.pc = "transport",
                  !.slot.conn = Len(conns) + 1])

\* enter_async_context(sse_client(...) / stdio_client(...)) ended.
TransportDone(o, ok) ==
    /\ hop[o].pc = "transport"
    /\ LET h == Host(o)
           c == hop[o].conn
       IN IF ok
          THEN CommitHost(o, [h EXCEPT !.conns[c].stack = "transport",
                                       !.slot.pc = "session"])
          ELSE CommitHost(o, Return(h, "Exception"))

\* enter_async_context(ClientSession(*s)) ended: on success the session is set
\* and _initialize_and_list_tools awaits initialize(); on failure the
\* exception is logged and raised again.
SessionDone(o, ok) ==
    /\ hop[o].pc = "session"
    /\ LET h == Host(o)
           c == hop[o].conn
       IN IF ok
          THEN CommitHost(o, [h EXCEPT !.conns[c].stack = "session",
                                       !.conns[c].session = "set",
                                       !.slot.pc = "initialize"])
          ELSE CommitHost(o, Return(h, "Exception"))

\* session.initialize() ended: list_tools() is awaited, or, on failure,
\* disconnect() is awaited before RuntimeError is raised.
InitializeDone(o, ok) ==
    /\ hop[o].pc = "initialize"
    /\ LET h == Host(o)
       IN IF ok
          THEN CommitHost(o, [h EXCEPT !.slot.pc = "list"])
          ELSE IF Disconnects(h, hop[o].conn)
               THEN CommitHost(o, [h EXCEPT !.slot.pc = "closing"])
               ELSE CommitHost(o, AfterDisconnect(h))

\* session.list_tools() ended: the tools are built under their prefixed names,
\* connect_* returns the instance and add_* stores it in the table; on failure
\* disconnect() is awaited before RuntimeError is raised.
ListDone(o, ok, catalog) ==
    /\ hop[o].pc = "list"
    /\ LET h == Host(o)
           c == hop[o].conn
           id == conns[c].id
       IN IF ok
          THEN CommitHost(o, Return([h EXCEPT
                  !.conns[c].tools = {PrefixedName(id, n) : n \in catalog},
                  !.clients = SetClient(@, id, c)], "client"))
          ELSE IF Disconnects(h, c)
               THEN CommitHost(o, [h EXCEPT !.slot.pc = "closing"])
               ELSE CommitHost(o, AfterDisconnect(h))

\* exit_stack.aclose() returned in disconnect(): the session and the tools are
\* dropped; then delete_sandbox(host.sandbox.id) is awaited when the
\* instance's container_name is not the sandbox id.
CloseDone(o) ==
    /\ hop[o].pc = "closing"
    /\ LET c == hop[o].conn
           h == [Host(o) EXCEPT !.conns[c].stack = "closed",
                                !.conns[c].session = "none",
                                !.conns[c].tools = {},
                                !.closed = Append(@, c)]
       IN IF get_container_name(conns[c].kind) # "sandbox"
          THEN CommitHost(o, [h EXCEPT !.slot.pc = "deleting"])
          ELSE CommitHost(o, AfterDisconnect(h))

\* SANDBOX_MANAGER.delete_sandbox(self.host.sandbox.id) returned.
DeleteDone(o) ==
    /\ hop[o].pc = "deleting"
    /\ CommitHost(o, AfterDisconnect([Host(o) EXCEPT !.sandbox = "deleted"]))

\* remove_client(client_id) up to its await.
RemoveBegin(o, id) ==
    /\ Free(o)
    /\ LET h == [Host(o) EXCEPT !.slot = [IdleOp EXCEPT !.op = "remove", !.client_id = id]]
       IN IF ~InTable(clients, id)
          THEN CommitHost(o, Return(h, "False"))
          ELSE LET c == Lookup(clients, id)
                   h1 == [h EXCEPT !.clients = PopClient(@, id), !.slot.conn = c]
               IN IF Disconnects(h1, c)
                  THEN CommitHost(o, [h1 EXCEPT !.slot.pc = "closing"])
                  ELSE CommitHost(o, Return(h1, "True"))

\* disconnect_all() / cleanup() up to the first await: the ids are listed and
\* reversed, and the loop starts.
TeardownOrderForward(cl) == list_clients(cl)
TeardownOrder(cl) == Reverse(list_clients(cl))

DisconnectAllBegin(o) ==
    /\ Free(o)
    /\ clients # <<>> \/ hop[o].op # "disconnect_all"
    /\ CommitHost(o, RunAll([Host(o) EXCEPT
            !.slot = [IdleOp EXCEPT !.op = "disconnect_all",
                                    !.client_ids = TeardownOrder(clients),
                                    !.rest = TeardownOrder(clients)]]))

\* The session a tool object holds: the one its instance had when the tool was
\* built, whatever became of the instance; None for a tool built without one.
ToolSession(c) == IF c = 0 THEN "none" ELSE "set"

\* MCPSandboxClientTool.execute(**kwargs) up to its await: an error result
\* without a session, otherwise session.call_tool is awaited.
ExecuteBegin(o, c) ==
    /\ Free(o)
    /\ IF c = 0 THEN TRUE ELSE conns[c].stack \in {"session", "closed"}
    /\ LET h == [Host(o) EXCEPT !.slot = [IdleOp EXCEPT !.op = "execute", !.conn = c]]
       IN IF ToolSession(c) = "none"
          THEN CommitHost(o, Return(h, "error"))
          ELSE CommitHost(o, [h EXCEPT !.slot.pc = "call"])

\* session.call_tool(...) ended: its text is the output, an Exception becomes
\* an error result. A call on a closed session fails.
ExecuteUncaught(outcome) == IF outcome = "raise" THEN "Exception" ELSE "output"
ExecuteResult(outcome) == IF outcome = "raise" THEN "error" ELSE "output"

ExecuteDone(o, outcome) ==
    /\ hop[o].pc = "call"
    /\ outcome = "return" => conns[hop[o].conn].stack = "session"
    /\ CommitHost(o, Return(Host(o), ExecuteResult(outcome)))

\* Calls made one after the other on one host: a call begins when none is
\* suspended.
NextHost ==
    \/ \E id \in ClientIds, kind \in Kinds : Quiet /\ AddBegin("o1", id, kind)
    \/ \E o \in Ops, ok \in BOOLEAN : TransportDone(o, ok)
    \/ \E o \in Ops, ok \in BOOLEAN : SessionDone(o, ok)
    \/ \E o \in Ops, ok \in BOOLEAN : InitializeDone(o, ok)
    \/ \E o \in Ops, ok \in BOOLEAN, catalog \in Catalogs : ListDone(o, ok, catalog)
    \/ \E o \in Ops : CloseDone(o)
    \/ \E o \in Ops : DeleteDone(o)
    \/ \E id \in ClientIds : Quiet /\ RemoveBegin("o1", id)
    \/ Quiet /\ DisconnectAllBegin("o1")
    \/ \E c \in 0..Len(conns) : Quiet /\ ExecuteBegin("o1", c)
    \/ \E o \in Ops, outcome \in {"return", "raise"} : ExecuteDone(o, outcome)

SpecHost == Init /\ [][NextHost]_vars

\* Two callers on one host: an add may begin while another call is suspended
\* at one of its awaits.
NextOverlap ==
    \/ \E o \in Ops, id \in ClientIds, kind \in Kinds : AddBegin(o, id, kind)
    \/ \E o \in Ops, ok \in BOOLEAN : TransportDone(o, ok)
    \/ \E o \in Ops, ok \in BOOLEAN : SessionDone(o, ok)
    \/ \E o \in Ops, ok \in BOOLEAN : InitializeDone(o, ok)
    \/ \E o \in Ops, ok \in BOOLEAN, catalog \in Catalogs : ListDone(o, ok, catalog)
    \/ \E o \in Ops : CloseDone(o)
    \/ \E o \in Ops : DeleteDone(o)
    \/ Quiet /\ DisconnectAllBegin("o1")

SpecOverlap == Init /\ [][NextOverlap]_vars

\* ------------------------------------------------------------ tool names
\* The exposed name of a remote tool and the name execute sends back, for all
\* client ids and remote names of up to MaxNameLen characters, '-' among them.
MaxNameLen == 2
Strings(n) == UNION {[1..k -> {"a", "-"}] : k \in 0..n}

\* A list_tools() response naming one remote tool reaches the instance of
\* client_id id.
InitNames ==
    /\ InitBus /\ InitReg /\ InitStreams /\ NoAgent /\ InitRoute
    /\ clients = <<>> /\ conns = <<>> /\ closed = <<>> /\ sandbox = "alive"
    /\ \E id \in Strings(MaxNameLen), n \in Strings(MaxNameLen) \ {<<>>} :
           hop = [o \in Ops |->
                    IF o = "o1"
                    THEN [IdleOp EXCEPT !.op = "list_tools", !.pc = "list",
                                        !.client_id = id, !.ret = [remote |-> n]]
                    ELSE IdleOp]

\* _initialize_and_list_tools: the tool object is built under its prefixed name.
BuildTool(o) ==
    /\ hop[o].op = "list_tools" /\ hop[o].pc = "list"
    /\ hop' = [hop EXCEPT ![o].pc = "tool",
                          ![o].ret = [remote |-> @.remote,
                                      name |-> PrefixedName(hop[o].client_id, @.remote)]]
    /\ UNCHANGED <<clients, conns, closed, sandbox, offHost>>

\* execute: the name given to session.call_tool.
ExecuteName(o) ==
    /\ hop[o].op = "list_tools" /\ hop[o].pc = "tool"
    /\ hop' = [hop EXCEPT ![o].pc = "call_tool",
                          ![o].ret = [remote |-> @.remote, name |-> @.name,
                                      server_tool_name |->
                                          ServerToolName(hop[o].client_id, @.name)]]
    /\ UNCHANGED <<clients, conns, closed, sandbox, offHost>>

NextNames ==
    \/ \E o \in Ops : BuildTool(o)
    \/ \E o \in Ops : ExecuteName(o)

SpecNames == InitNames /\ [][NextNames]_vars

\* ------------------------------------------------------------------ claims
InQueue(k) == \E j \in 1..Len(queue) : queue[j].timestamp = k
NameInQueue(k) == queue[CHOOSE j \in 1..Len(queue) : queue[j].timestamp = k].name

\* C1, first half: every handler invocation is for an event emitted later than
\* every event the same subscription was invoked on before, so a subscription
\* sees its matching events in emission order and none of them twice.
C1_InOrderOnce ==
    [][ncalls' # ncalls =>
         \A p \in delivered : p.sub = hidx' => p.ev < cur'.timestamp]_vars

\* C1, second half: an event in the queue that matches a registered
\* subscription is eventually handed to that subscription.
C1_EventuallyDelivered ==
    \A k \in 1..MaxEvents, i \in 1..MaxHandlers :
        (InQueue(k) /\ i <= Len(handlers) /\ PatternMatch(handlers[i].pattern, NameInQueue(k)))
            ~> ([sub |-> i, ev |-> k] \in delivered)

\* C1: on a bus whose dispatch task is running, each subscription is invoked on
\* its matching events in emission order, at most once per event, and every
\* matching event is eventually delivered, also when it was put while a handler
\* of a disjoint pattern was being awaited.
C1_OrderedExactlyOnce == C1_InOrderOnce /\ C1_EventuallyDelivered

\* An event put while a handler with a disjoint pattern was busy got delivered.
C1_Witness == \E p \in delivered : p.ev \in busyPuts

\* The task of s is the one it subscribed to: registered, and not created anew.
SameTask(s) == stask[s] # NoTask /\ tasks[stask[s]] = 1 /\ ncreate = 1

\* C2: the progress records a subscriber of a registered task has received are
\* history[0], history[1], ... without gap or duplicate, whatever the
\* interleaving of appends with the stream.
C2_StreamIsHistoryPrefix ==
    \A s \in Subscribers : SameTask(s) => IsPrefix(sout[s], histories[stask[s]])

\* C4, the index: the entry at position i of a history has index i (0-based).
C4_IndexIsPosition ==
    \A t \in TaskIds : \A i \in 1..Len(histories[t]) : histories[t][i].index = i - 1

\* C4 as stated: while the id stays registered its history only grows.
C4_AppendOnlyWhileRegistered ==
    [][\A t \in TaskIds :
          tasks[t] # 0 /\ tasks'[t] # 0 => IsPrefix(histories[t], histories'[t])]_vars

\* C4 as amended: every entry's index is its position, and the history only
\* grows while the id stays registered and create_task is not called for it.
C4_AppendOnly ==
    /\ []C4_IndexIsPosition
    /\ [][\A t \in TaskIds :
            tasks[t] # 0 /\ tasks'[t] = tasks[t] => IsPrefix(histories[t], histories'[t])]_vars

\* A history of several entries, reached by appends.
C4_Witness == \E t \in TaskIds : tasks[t] # 0 /\ Len(histories[t]) >= 2

\* C3 (as stated): once a registered task's run has been started, every open
\* stream of that task eventually ends, however the run finishes.
C3_StreamEventuallyEnds ==
    \A s \in Subscribers :
        (spc[s] \notin {"none", "end"} /\ rpc[FirstRun] # "none") ~> (spc[s] = "end")

\* Subscriptions that are the progress recorder of a task, and their calls
\* that have ended.
IsRecorder(i) == handlers[i].task # NoTask
EndedRecorderCalls(t) ==
    {p \in delivered : /\ handlers[p.sub].task = t
                       /\ ~(bpc = "handler" /\ hidx = p.sub /\ cur.timestamp = p.ev)}

\* C5 (as stated): the call of a progress recorder never fails, and every
\* event handed to the recorder of a registered task is in that task's history.
C5_RecorderRecordsEveryEvent ==
    /\ (bpc = "handler" /\ IsRecorder(hidx)) => lastOk
    /\ \A t \in TaskIds :
          tasks[t] # 0 => Len(histories[t]) >= Cardinality(EndedRecorderCalls(t))

\* Events on the agent's queue with a given name.
EventsNamed(name) == Cardinality({i \in 1..Len(queue) : queue[i].name = name})

\* C6 (as stated): a run with max_steps >= 1 whose prepare and steps do not
\* raise and during which should_terminate is never set returns after exactly
\* max_steps steps with current_step 0, state Idle, one max-steps result and
\* one step-max-reached event.
C6_MaxStepsOutcome ==
    (/\ max_steps >= 1
     /\ rpc[FirstRun] \notin {"none", "prepare", "plan", "think", "act",
                       "prepare_error", "step_error"}
     /\ \A r \in Runs \ {FirstRun} : rpc[r] = "none"
     /\ ~should_terminate)
    => (/\ rpc[FirstRun] = "returned"
        /\ results[FirstRun].steps = max_steps
        /\ results[FirstRun].maxed = 1
        /\ current_step = 0
        /\ state = "IDLE"
        /\ EventsNamed(STEP_MAX_REACHED) = 1)

\* C7: whenever the agent's state is Running, current_step <= max_steps.
C7_StepWithinMax == state = "RUNNING" => current_step <= max_steps

C7_Witness ==
    /\ state = "RUNNING"
    /\ max_steps >= 1
    /\ current_step = max_steps
    /\ \E r \in Runs : rpc[r] \in {"think", "act"}

\* C8: a call of run made while the state is not Idle is rejected at once:
\* no event is put on the queue and state, current_step, should_terminate
\* and memory keep their values.
C8_RejectedRunChangesNothing ==
    [][\A r \in Runs :
          (rpc[r] = "none" /\ rpc'[r] # "none" /\ state # "IDLE")
          => /\ rpc'[r] = "rejected"
             /\ UNCHANGED <<queue, nput, state, current_step, should_terminate, memory>>]_vars

C8_Witness ==
    \E r \in Runs : rpc[r] = "rejected" /\ state = "RUNNING" /\ current_step >= 1

\* No call of run is in progress.
AtRest == \A r \in Runs : rpc[r] \notin {"prepare", "plan", "think", "act"}

\* C9 (as stated): every state_context call makes exactly two state-change
\* emits, and the state attribute never changes without a state-change emit.
C9_TwoStateChangeEvents ==
    /\ [](AtRest => nsc = 2 * nctx)
    /\ [][state' # state => nsc' > nsc]_vars

\* C10 (as stated): should_terminate stays set, terminate() leaves every call
\* of run where it is, and no iteration that begins with the flag set
\* executes think or act.
C10_NoStepAfterTerminate ==
    /\ [][should_terminate => should_terminate']_vars
    /\ [][Terminate => UNCHANGED <<rpc, state, current_step>>]_vars
    /\ [](\A r \in Runs : rlate[r] = 0)

\* sum(1 for msg in reversed(messages[:n]) if msg.role == "assistant" and
\* msg.content == content), counted message by message.
RECURSIVE CountIdentical(_, _, _)
CountIdentical(mem, n, content) ==
    IF n = 0 THEN 0
    ELSE CountIdentical(mem, n - 1, content)
         + (IF mem[n].role = "assistant" /\ mem[n].content = content THEN 1 ELSE 0)

\* Every message is the assistant's, with one and the same non-empty text.
RepeatsItself(mem) ==
    \A i \in 1..Len(mem) : mem[i].role = "assistant" /\ mem[i].content = "x"

\* C11: is_stuck is true exactly when memory holds at least 2 messages, the
\* latest has non-empty content and at least duplicate_threshold earlier
\* assistant messages have the latest message's content; an agent repeating one
\* text is flagged from the message after the duplicate_threshold-th on (the
\* 3rd for the default 2), not before.
C11_StuckExactlyOnRepeat ==
    /\ is_stuck(memory) <=>
          (/\ Len(memory) >= 2
           /\ memory[Len(memory)].content # ""
           /\ CountIdentical(memory, Len(memory) - 1, memory[Len(memory)].content)
                 >= duplicate_threshold)
    /\ RepeatsItself(memory) => (is_stuck(memory) <=> Len(memory) >= duplicate_threshold + 1)

C11_Witness ==
    /\ RepeatsItself(memory)
    /\ Len(memory) = duplicate_threshold + 1
    /\ is_stuck(memory)
    /\ ~is_stuck(SubSeq(memory, 1, Len(memory) - 1))

\* C12: disconnect_all tears the remaining connections down in exactly the
\* reverse of their insertion order, each exactly once, and leaves the host
\* with no connection. In calls made one after the other a connection is
\* inserted when its add returns, so insertion order is creation order: every
\* exit stack closed by disconnect_all belongs to a connection inserted after
\* all those still in the table, no exit stack is closed twice, and when the
\* call has returned the table is empty and no session is left open.
C12_LatestFirst ==
    \A o \in Ops :
        hop[o].op = "disconnect_all" /\ closed' # closed =>
            /\ closed' = Append(closed, hop[o].conn)
            /\ \A i \in 1..Len(clients) : clients[i].conn < hop[o].conn

C12_NoneLeft ==
    /\ \A i, j \in 1..Len(closed) : closed[i] = closed[j] => i = j
    /\ \A o \in Ops :
        hop[o].op = "disconnect_all" /\ hop[o].pc = "done" =>
            /\ clients = <<>>
            /\ \A c \in 1..Len(conns) : conns[c].session = "none"

C12_ReverseTeardown == []C12_NoneLeft /\ [][C12_LatestFirst]_vars

C12_Witness ==
    /\ hop["o1"].op = "disconnect_all"
    /\ hop["o1"].pc = "done"
    /\ Len(hop["o1"].client_ids) = 2
    /\ closed = <<2, 1>>
    /\ clients = <<>>

\* C13: no two tools exposed by the connections of a host have the same
\* exposed name: the tool maps of two different connections in the table have
\* no key in common (within one connection the names are the keys of one
\* dict).
C13_UniqueNames ==
    \A i, j \in 1..Len(clients) :
        i # j => conns[clients[i].conn].tools \cap conns[clients[j].conn].tools = {}

\* C14: an add called with a client_id that is in the table raises ValueError
\* in the step that begins it: no instance is created and no transport opened,
\* and the table, the connections with their tools, the closed exit stacks and
\* the container are as before.
C14_DuplicateAddStep ==
    \A o \in Ops :
        /\ Free(o)
        /\ hop'[o] # hop[o]
        /\ hop'[o].op = "add"
        /\ InTable(clients, hop'[o].client_id)
        => /\ hop'[o].pc = "done"
           /\ hop'[o].ret = "ValueError"
           /\ <<clients, conns, closed, sandbox>>' = <<clients, conns, closed, sandbox>>

C14_DuplicateAddRaises == [][C14_DuplicateAddStep]_vars

C14_Witness ==
    /\ hop["o1"].op = "add"
    /\ hop["o1"].ret = "ValueError"
    /\ InTable(clients, hop["o1"].client_id)
    /\ conns[Lookup(clients, hop["o1"].client_id)].tools # {}
    /\ Len(conns) = 1

\* C15: remove_client of an id that is not in the table returns False in the
\* step that begins it and changes nothing; remove_client of an id that is in
\* the table takes it out of the table at once and, when it has returned True,
\* the exit stack of the connection is closed and its session and tools are
\* dropped. A second remove of the same id therefore finds the id absent.
C15_RemoveStep ==
    \A o \in Ops :
        /\ Free(o)
        /\ hop'[o] # hop[o]
        /\ hop'[o].op = "remove"
        => IF InTable(clients, hop'[o].client_id)
           THEN /\ ~InTable(clients', hop'[o].client_id)
                /\ hop'[o].ret # "False"
                /\ hop'[o].conn = Lookup(clients, hop'[o].client_id)
           ELSE /\ hop'[o].pc = "done"
                /\ hop'[o].ret = "False"
                /\ <<clients, conns, closed, sandbox>>' = <<clients, conns, closed, sandbox>>

C15_Removed ==
    \A o \in Ops :
        hop[o].op = "remove" /\ hop[o].pc = "done" =>
            /\ ~InTable(clients, hop[o].client_id)
            /\ hop[o].ret \in {"True", "False"}
            /\ hop[o].ret = "True" =>
                /\ conns[hop[o].conn].stack = "closed"
                /\ conns[hop[o].conn].session = "none"
                /\ conns[hop[o].conn].tools = {}
                /\ \E i \in 1..Len(closed) : closed[i] = hop[o].conn

C15_RemoveIdempotent == []C15_Removed /\ [][C15_RemoveStep]_vars

C15_Witness ==
    /\ hop["o1"].op = "remove"
    /\ hop["o1"].pc = "done"
    /\ hop["o1"].ret = "True"
    /\ hop["o1"].client_id = <<"a">>
    /\ closed = <<1>>
    /\ clients = <<[id |-> <<"a", "-", "b">>, conn |-> 2]>>

\* C16: when session.initialize() or session.list_tools() fails during an
\* add, the add ends by raising RuntimeError after the exit stack of the new
\* instance has been closed; the client_id is not in the table, no entry of
\* the table is the failed instance, and the instance holds no tool.
C16_FailedAdd(o) ==
    /\ hop[o].op = "add"
    /\ \/ hop[o].pc \in {"closing", "deleting"}
       \/ hop[o].pc = "done" /\ hop[o].ret = "RuntimeError"

C16_NotVisible ==
    \A o \in Ops :
        C16_FailedAdd(o) =>
            /\ ~InTable(clients, hop[o].client_id)
            /\ \A i \in 1..Len(clients) : clients[i].conn # hop[o].conn
            /\ hop[o].pc = "closing" \/ conns[hop[o].conn].tools = {}
            /\ hop[o].pc # "closing" =>
                /\ conns[hop[o].conn].stack = "closed"
                /\ conns[hop[o].conn].session = "none"

C16_FailureStep ==
    \A o \in Ops :
        /\ hop[o].op = "add"
        /\ hop[o].pc \in {"initialize", "list"}
        /\ ~(hop'[o].pc = "list" \/ (hop'[o].pc = "done" /\ hop'[o].ret = "client"))
        /\ hop'[o] # hop[o]
        => C16_FailedAdd(o)' /\ hop'[o].pc = "closing"

C16_Propagates ==
    \A o \in Ops :
        C16_FailedAdd(o) /\ hop'[o] # hop[o] /\ ~Free(o) => C16_FailedAdd(o)'

C16_FailedAddCleansUp ==
    []C16_NotVisible /\ [][C16_FailureStep /\ C16_Propagates]_vars

C16_Witness ==
    /\ hop["o1"].op = "add"
    /\ hop["o1"].pc = "done"
    /\ hop["o1"].ret = "RuntimeError"
    /\ hop["o1"].conn = 2
    /\ closed = <<2>>
    /\ Len(clients) = 1

\* C17: execute of a remote tool never ends by raising: it returns an output
\* or an error result, and it returns an error result when the tool has no
\* session or when its connection has been disconnected.
C17_ExecuteNeverRaises ==
    \A o \in Ops :
        hop[o].op = "execute" /\ hop[o].pc = "done" =>
            /\ hop[o].ret \in {"output", "error"}
            /\ hop[o].conn = 0 => hop[o].ret = "error"
            /\ hop[o].conn # 0 =>
                (conns[hop[o].conn].stack = "closed" => hop[o].ret = "error")

C17_Witness ==
    /\ hop["o1"].op = "execute"
    /\ hop["o1"].pc = "done"
    /\ hop["o1"].ret = "error"
    /\ hop["o1"].conn = 1
    /\ conns[1].stack = "closed"
    /\ clients = <<>>

\* C18: time measured in polling ticks. A stream sends a heartbeat only when
\* it has sent neither a record nor a heartbeat for at least the heartbeat
\* interval, and a poll that finds nothing new after a heartbeat (or after the
\* stream was opened) sends a heartbeat exactly when the interval has passed
\* since: one heartbeat per interval of silence.
C18_OnePerInterval ==
    \A s \in Subscribers :
        /\ spc[s] # "heartbeat" /\ spc'[s] = "heartbeat" => ssent[s].ticks >= HeartbeatTicks
        /\ /\ spc[s] = "sleep" /\ sslept[s]
           /\ ~(spc'[s] = "sleep" /\ sslept'[s])
           /\ spc'[s] # "yield"
           /\ ssent[s].what \in {"none", "heartbeat"}
           => (spc'[s] = "heartbeat" <=> ssent[s].ticks >= HeartbeatTicks)

\* C18 as stated: moreover no heartbeat is sent while entries arrive at gaps
\* shorter than the interval, that is, less than an interval after an append
\* to the history of the stream's task id, while the id is registered.
C18_HeartbeatOnlyInSilence ==
    [][/\ C18_OnePerInterval
       /\ \A s \in Subscribers :
            spc[s] # "heartbeat" /\ spc'[s] = "heartbeat" /\ tasks[stask[s]] # 0 =>
                sappend[stask[s]] >= HeartbeatTicks]_vars

\* C18 as amended: the same, the last part while the id is registered and
\* create_task has been called for it once.
C18_HeartbeatOnlyInSilenceOfOneTask ==
    [][/\ C18_OnePerInterval
       /\ \A s \in Subscribers :
            spc[s] # "heartbeat" /\ spc'[s] = "heartbeat" /\ SameTask(s) =>
                sappend[stask[s]] >= HeartbeatTicks]_vars

\* A heartbeat sent in the silence after a record of a task created once.
C18_Witness ==
    \E s \in Subscribers :
        /\ spc[s] = "heartbeat"
        /\ ssent[s] = [what |-> "heartbeat", ticks |-> 0]
        /\ Len(sout[s]) >= 1
        /\ SameTask(s)

\* C19: a stream opened on a task id that is not registered yields the error
\* record and, asked for more, ends; it yields no progress record and no
\* heartbeat, stays ended, and the registry is as before.
C19_ErrorOnly ==
    \A s \in Subscribers :
        ssent[s].what = "error" => spc[s] \in {"error", "end"} /\ sout[s] = <<>>

C19_UnknownIdStep ==
    \A s \in Subscribers :
        /\ spc[s] = "none" /\ spc'[s] # "none" /\ tasks[stask'[s]] = 0 =>
            /\ spc'[s] = "error"
            /\ ssent'[s].what = "error"
            /\ <<tasks, histories>>' = <<tasks, histories>>
        /\ spc[s] = "error" /\ spc'[s] # "error" =>
            /\ spc'[s] = "end"
            /\ <<tasks, histories>>' = <<tasks, histories>>
        /\ spc[s] = "end" => spc'[s] = "end" /\ ssent'[s] = ssent[s]

C19_UnknownIdOneError == []C19_ErrorOnly /\ [][C19_UnknownIdStep]_vars

C19_Witness ==
    \E s \in Subscribers :
        spc[s] = "end" /\ ssent[s].what = "error" /\ tasks[stask[s]] = 0

\* C20: no state of a stream subscriber disables or delays the agent's step
\* loop, emit or the recorder's append. A step of a stream changes nothing
\* outside the streams, and whatever the run, the agent's steps, terminate,
\* the cleanup and the recorder's append could do before it they can do after
\* it; so what the agent's side does with streams open it does without them.
C20_StreamStepIsInert ==
    StreamSide =>
        /\ UNCHANGED <<busVars, regVars, agentVars, hostVars, routeVars, ntasks, lastCall>>
        /\ (ENABLED (\E t \in TaskIds : RunTask(t))) <=> (ENABLED (\E t \in TaskIds : RunTask(t)))'
        /\ (ENABLED AgentStep) <=> (ENABLED AgentStep)'
        /\ (ENABLED AgentFault) <=> (ENABLED AgentFault)'
        /\ (ENABLED (\E t \in TaskIds : TerminateTask(t))) <=>
               (ENABLED (\E t \in TaskIds : TerminateTask(t)))'
        /\ (ENABLED TaskEnd) <=> (ENABLED TaskEnd)'
        /\ (ENABLED (\E t \in TaskIds : UpdateTaskProgress(t, STEP_START, TRUE))) <=>
               (ENABLED (\E t \in TaskIds : UpdateTaskProgress(t, STEP_START, TRUE)))'

C20_SubscribersNeverBlock == [][C20_StreamStepIsInert]_vars

\* The run has ended and entries were appended while a stream is suspended in
\* the middle of a delivery.
C20_Witness ==
    \E s \in Subscribers :
        /\ spc[s] = "yield"
        /\ Len(histories[stask[s]]) > Len(sout[s]) + 1
        /\ rpc[FirstRun] = "cleaned"

\* C21: when a handler call ends by raising, the dispatch task keeps running:
\* the next subscription matching the same event is invoked on it; when there
\* is none, the earliest queued event that some subscription matches is
\* taken and its first matching subscription invoked, the events before it and
\* it leaving the queue; with no such event the task waits on an empty queue.
C21_AfterRaise ==
    /\ bpc = "handler"
    /\ ncalls' # ncalls \/ bpc' = "wait"
    /\ lastOutcome' = "raise"
    => /\ btask' = "running"
       /\ LET n == {i \in (hidx + 1)..Len(handlers) :
                       PatternMatch(handlers[i].pattern, cur.name)}
              m == {j \in 1..Len(queue) :
                       \E i \in 1..Len(handlers) :
                           PatternMatch(handlers[i].pattern, queue[j].name)}
          IN IF n # {}
             THEN /\ bpc' = "handler" /\ cur' = cur /\ queue' = queue
                  /\ hidx' \in n /\ \A i \in n : hidx' <= i
             ELSE IF m = {}
             THEN bpc' = "wait" /\ queue' = <<>>
             ELSE /\ bpc' = "handler"
                  /\ \E j \in m :
                       /\ \A k \in m : j <= k
                       /\ cur' = queue[j]
                       /\ queue' = SubSeq(queue, j + 1, Len(queue))
                  /\ PatternMatch(handlers[hidx'].pattern, cur'.name)
                  /\ \A i \in 1..(hidx' - 1) : ~PatternMatch(handlers[i].pattern, cur'.name)

C21_RaiseDoesNotStopDispatch == [][C21_AfterRaise]_vars

\* A second subscription is being invoked on an event whose first matching
\* subscription raised, with a later event waiting in the queue.
C21_Witness ==
    /\ bpc = "handler"
    /\ lastOutcome = "raise"
    /\ hidx = 2
    /\ [sub |-> 1, ev |-> cur.timestamp] \in delivered
    /\ queue # <<>>

\* C22 (as stated): on an agent whose bus is running no emit raises, and each
\* emit appends its event to the queue: a run that has passed its first emit
\* did not end there, and the lifecycle-start event is among the events put.
C22_EmitAppendsOne ==
    \A r \in Runs :
        btask = "running" /\ rpc[r] \notin {"none", "rejected"} =>
            /\ rpc[r] # "emit_error"
            /\ nput >= 1
            /\ EventsNamed(LIFECYCLE_START) >= 1

\* C23 (as stated): every task whose run was started, however the run ends,
\* has its cleanup awaited and is eventually removed from the registry.
C23_StartedTaskIsRemoved ==
    \A t \in TaskIds :
        (tasks[t] # 0 /\ rpc[FirstRun] # "none") ~> (rpc[FirstRun] = "cleaned" /\ tasks[t] = 0)

\* C24 (as stated): a CreateTask request that is rejected or fails before the
\* task is registered leaves tasks and histories as they were and asks no
\* agent to terminate.
C24_FailedCreateStep ==
    lastCreate' # lastCreate /\ lastCreate'.status \in {"rejected", "error"} =>
        /\ tasks' = tasks
        /\ histories' = histories
        /\ should_terminate' = should_terminate

C24_FailedCreateHasNoEffect == [][C24_FailedCreateStep]_vars

\* C25 (as stated): when a step raises, an error state-change event is
\* emitted, the state is back to Idle, the run ends there with the exception,
\* and it records no further step, no max-steps outcome and no completion event.
C25_StepFaultStep ==
    \A r \in Runs :
        rpc[r] \in {"think", "act"} /\ rpc'[r] = "step_error" =>
            /\ Cardinality({i \in 1..Len(queue') : queue'[i].name = STATE_CHANGE})
                   > EventsNamed(STATE_CHANGE)
            /\ state' = "IDLE"
            /\ results'[r] = results[r]
            /\ Cardinality({i \in 1..Len(queue') : queue'[i].name = LIFECYCLE_COMPLETE})
                   = EventsNamed(LIFECYCLE_COMPLETE)

C25_StepFaultAbortsRun ==
    /\ [][C25_StepFaultStep]_vars
    /\ [][\A r \in Runs : rpc[r] = "step_error" =>
              rpc'[r] = "step_error" /\ results'[r] = results[r]]_vars

\* C26 (as stated): a run whose step ends with should_terminate set ends with
\* the agent in state Finished, and a run begun after it is rejected.
C26_FinishedIsTerminal ==
    /\ [][\A r \in Runs :
              rpc[r] = "act" /\ rpc'[r] = "returned" /\ should_terminate' =>
                  state' = "FINISHED"]_vars
    /\ [][\A r \in Runs :
              /\ rpc[FirstRun] = "returned" /\ should_terminate
              /\ results[FirstRun].steps >= 1
              /\ rpc[r] = "none" /\ rpc'[r] # "none"
              => rpc'[r] = "rejected"]_vars

\* C27 (as stated): a run that becomes Finished at the end of a step, its last
\* permitted one included, records no max-steps outcome: no max-steps result
\* and no reset of current_step.
C27_FinishedRunHasNoMaxStepsOutcome ==
    [][\A r \in Runs :
          rpc[r] = "act" /\ rpc'[r] = "returned" /\ should_terminate' =>
              /\ results'[r].maxed = results[r].maxed
              /\ current_step' = current_step]_vars

\* The subscriptions whose pattern matches an event name.
Matching(name) == {i \in 1..Len(handlers) : PatternMatch(handlers[i].pattern, name)}

\* C28: a handler call starts only where the dispatch task waits or where the
\* previous call has ended. For the event in hand the next call is that of the
\* next matching subscription in registration order, none skipped; a call for
\* another event starts only when every matching subscription of the event in
\* hand has been called, and it is the first matching subscription of the
\* oldest queued event that has one, an event younger than all dispatched.
C28_CallStep ==
    ncalls' # ncalls =>
        /\ ncalls' = ncalls + 1
        /\ bpc' = "handler"
        /\ hidx' \in Matching(cur'.name)
        /\ delivered' = delivered \cup {[sub |-> hidx', ev |-> cur'.timestamp]}
        /\ IF bpc = "handler" /\ cur' = cur
           THEN /\ hidx' > hidx
                /\ \A i \in Matching(cur.name) : ~(hidx < i /\ i < hidx')
                /\ queue' = queue
           ELSE /\ bpc = "handler" =>
                    \A i \in Matching(cur.name) :
                        [sub |-> i, ev |-> cur.timestamp] \in delivered
                /\ \A i \in Matching(cur'.name) : hidx' <= i
                /\ \E j \in 1..Len(queue) :
                       /\ queue[j] = cur'
                       /\ queue' = SubSeq(queue, j + 1, Len(queue))
                       /\ \A k \in 1..(j - 1) : Matching(queue[k].name) = {}
                /\ \A d \in delivered : d.ev < cur'.timestamp

C28_HandlersRunInOrder == [][C28_CallStep]_vars

\* The second of two matching subscriptions is being called for an event
\* whose first call returned, while a producer has enqueued a further event.
C28_Witness ==
    /\ bpc = "handler" /\ hidx = 2 /\ lastOutcome = "return"
    /\ [sub |-> 1, ev |-> cur.timestamp] \in delivered
    /\ \E j \in 1..Len(queue) : queue[j].timestamp > cur.timestamp

\* C29: whatever start() and stop() calls were made, the bus has at most one
\* dispatch task that is not done, the one held in _task; start() while that
\* task is not done changes nothing, and stop() changes nothing when there is
\* no such task or when its cancellation was already requested.
C29_SingleDispatchTask ==
    /\ [](/\ ntasks \in {0, 1}
          /\ ntasks = 1 <=> btask \in {"running", "cancelling"})
    /\ [][Start /\ btask \in {"running", "cancelling"} =>
              UNCHANGED <<busVars, regVars, streamVars, agentVars, hostVars,
                          routeVars, ntasks>>]_vars
    /\ [][Stop /\ btask \in {"none", "done", "cancelling"} =>
              UNCHANGED <<busVars, regVars, streamVars, agentVars, hostVars,
                          routeVars, ntasks>>]_vars

\* stop() was called on a started bus whose dispatch task awaits a handler.
C29_Witness == btask = "cancelling" /\ ntasks = 1 /\ bpc = "handler"

\* C30 (as stated): a run that was accepted has emitted the lifecycle-start
\* event before anything else; its steps execute in state Running, after the
\* given request was added to memory; plan is awaited only from the end of
\* prepare, for a run with a request on an agent that plans; and each step
\* begins with current_step incremented by exactly 1.
C30_RunSequence ==
    /\ [](\A r \in Runs :
            enable_event_queue /\ rpc[r] \notin {"none", "rejected"} =>
                queue # <<>> /\ queue[1].name = LIFECYCLE_START)
    /\ [](\A r \in Runs :
            rpc[r] \in {"think", "act"} =>
                /\ state = "RUNNING"
                /\ rreq[r] => \E i \in 1..Len(memory) : memory[i].role = "user")
    /\ [][\A r \in Runs :
            rpc'[r] = "plan" /\ rpc[r] # "plan" =>
                rpc[r] = "prepare" /\ rreq[r] /\ should_plan]_vars
    /\ [][\A r \in Runs :
            rpc'[r] = "think" /\ rpc[r] # "think" =>
                current_step' = current_step + 1]_vars

\* C32 (as stated): the name execute sends to the remote session is the remote
\* tool's own name, for every client id, the empty one included, and for ids
\* and names that hold '-'.
C32_NameRoundTrip ==
    \A o \in Ops :
        hop[o].pc = "call_tool" => hop[o].ret.server_tool_name = hop[o].ret.remote

\* C33 (as stated): the teardown of one connection, in remove_client or after
\* a failed handshake in add, changes no other connection of the host and
\* leaves the shared sandbox as it was.
C33_TeardownStep ==
    \A o \in Ops :
        /\ hop[o].op \in {"remove", "add"}
        /\ hop[o].pc \in {"closing", "deleting"}
        /\ hop'[o] # hop[o]
        => /\ sandbox' = sandbox
           /\ \A c \in 1..Len(conns) : c # hop[o].conn => conns'[c] = conns[c]

C33_TeardownLeavesTheRestAlone == [][C33_TeardownStep]_vars

\* C36 (as stated): at most one run of the agent is between its start and its
\* return, so a run called while another is in progress is rejected.
C36_OneRunInProgress ==
    Cardinality({r \in Runs : rpc[r] \in {"prepare", "plan", "think", "act"}}) <= 1

\* C39 (as stated): every state-change payload that state_context hands to
\* emit, on the enter, the error and the revert path, names as old_state the
\* state the agent had just before the assignment, as new_state the state it
\* has just after it, and the two differ.
C39_StateChangePayload ==
    \A e \in scs :
        /\ e.old_state = e.before
        /\ e.new_state = e.after
        /\ e.old_state # e.new_state

\* C35 (as stated): act is awaited only by a step whose think has returned;
\* it is awaited when think reported that action is needed or termination was
\* requested, and otherwise the step ends without awaiting act, its result
\* counted and no act event put on the bus.
C35_ThinkStep ==
    \A r \in Runs :
        /\ rpc'[r] = "act" /\ rpc[r] # "act" => rpc[r] = "think"
        /\ ThinkDone(r, TRUE) => rpc'[r] = "act"
        /\ ThinkDone(r, FALSE) =>
              IF should_terminate
              THEN rpc'[r] = "act"
              ELSE /\ rpc'[r] # "act"
                   /\ results'[r].steps = results[r].steps + 1
                   /\ \A i \in 1..Len(queue') :
                          queue'[i].name \in {ACT_START, ACT_COMPLETE, ACT_TOKEN_COUNT}
                              => i <= Len(queue) /\ queue[i] = queue'[i]

C35_ActOnlyWhenNeeded == [][C35_ThinkStep]_vars

C35_Witness ==
    \E r \in Runs :
        /\ rpc[r] = "act"
        /\ should_terminate
        /\ results[r].steps = 1

\* The sum of the deltas of the first n token-count payloads.
RECURSIVE SumOfDeltas(_, _)
SumOfDeltas(payloads, n) ==
    IF n = 0 THEN 0 ELSE SumOfDeltas(payloads, n - 1) + payloads[n].input

\* C31 (as stated): with a cumulative counter that never decreases, every
\* token-count payload step hands to emit after think or act carries the
\* counter's value and, as delta, that value less the value in the previous
\* payload (the whole value in the first), never negative; the deltas handed
\* out so far add up to the cumulative value in the latest payload, also over
\* steps that skip act and over two runs of one agent.
C31_TokenDeltasAddUp ==
    /\ \A i \in 1..Len(tcs) :
          /\ tcs[i].input >= 0
          /\ tcs[i].input =
                tcs[i].total_input - (IF i = 1 THEN 0 ELSE tcs[i - 1].total_input)
    /\ tcs # <<>> => SumOfDeltas(tcs, Len(tcs)) = tcs[Len(tcs)].total_input
    /\ pre_step = IF tcs = <<>> THEN 0 ELSE tcs[Len(tcs)].total_input

\* One run of two steps, one of which skipped act, with tokens used in both.
C31_Witness ==
    /\ rpc[FirstRun] = "returned"
    /\ \A r \in Runs \ {FirstRun} : rpc[r] = "none"
    /\ results[FirstRun].steps = 2
    /\ Len(tcs) = 3
    /\ tcs[1].input > 0
    /\ tcs[3].input > 0

\* C34 (as stated): on an agent with the event queue, every invocation of step
\* counted by the wrapper has put exactly one step-start event carrying its
\* count on the bus, followed by at most one step-complete or step-error event
\* with that count, and the think and act events lie behind a step-start.
C34_StepEventsBracketed ==
    enable_event_queue =>
        /\ \A c \in 1..step_counter :
              LET starts == {i \in 1..Len(queue) :
                                /\ queue[i].name = STEP_START
                                /\ queue[i].content.count = c}
                  ends == {i \in 1..Len(queue) :
                              /\ queue[i].name \in {STEP_COMPLETE, STEP_ERROR}
                              /\ queue[i].content.count = c}
              IN /\ Cardinality(starts) = 1
                 /\ Cardinality(ends) <= 1
                 /\ \A i \in starts, j \in ends : i < j
        /\ \A i \in 1..Len(queue) :
              queue[i].name \in {THINK_START, THINK_COMPLETE, ACT_START, ACT_COMPLETE}
                  => \E j \in 1..(i - 1) : queue[j].name = STEP_START

C38_EstablishedIsInTable ==
    \A c \in 1..Len(conns) :
        /\ conns[c].stack = "session"
        /\ \A o \in Ops : hop[o].conn = c => Free(o)
        => /\ InTable(clients, conns[c].id)
           /\ Lookup(clients, conns[c].id) = c

\* C40 (as stated): while start() is the most recent of the start and stop
\* calls made on a bus, the bus has a dispatch task that has not ended (so
\* that the events put from then on can be delivered), also when start() was
\* called after stop() and before the cancelled task had ended.
C40_StartedBusHasTask ==
    lastCall = "start" => btask \in {"running", "cancelling"}

====
